---------------------------- MODULE Spec2Model ----------------------------
(***************************************************************************)
(* A model of the queryparser package: ParseFilter (operators.go), the     *)
(* SqlBuilder (sql.go) and the ElasticBuilder (elastic.go).                *)
(*                                                                         *)
(* SQL text is modelled as a sequence of tokens ("age", ">", "$1", ...);   *)
(* a substring test on SQL text is a contiguous-subsequence test on the    *)
(* tokens.  JSON text is modelled as its syntax tree, with the members of  *)
(* an object kept in textual order; decoding turns an object into a Go map *)
(* (a function), whose iteration order Go leaves unspecified.              *)
(***************************************************************************)
EXTENDS Integers, Sequences, FiniteSets, TLC

VARIABLES
    doc,      \* the JSON text last given to ParseFilter (NoDoc: none yet)
    filters,  \* the []Filter the caller holds
    qb,       \* the SqlBuilder
    model,    \* the model argument of the last Apply call
    options,  \* the options argument of the last Apply call
    out,      \* what the calls returned: out.parse (ParseFilter), out.apply
              \* (SqlBuilder.Apply), out.sql (ToSql), out.es (ElasticBuilder.Apply),
              \* out.get (GetPlaceholderFormat)
    history,  \* the constructor, SetPlaceholderFormat and With* calls made on
              \* the builder, in order
    threads   \* the goroutines inside Apply: where each one stands

vars == <<doc, filters, qb, model, options, out, history, threads>>

----------------------------------------------------------------------------
(* Bounds of the model.                                                    *)

\* How many elements a generated `$or`/`$and` array holds.
MaxArr == 2
\* SetPlaceholderFormat and With* calls made on one builder
MaxCalls == 3
\* Goroutines that call Apply on one shared builder.
MaxThreads == 2

----------------------------------------------------------------------------
(* Sequence helpers.                                                       *)

\* The permutations of a finite set, as sequences: the orders in which a
\* `for k := range m` loop may visit the keys of a Go map.
Perms(S) ==
    {p \in [1..Cardinality(S) -> S] : \A i, j \in 1..Cardinality(S) : p[i] = p[j] => i = j}

RECURSIVE Flatten(_)
\* The concatenation of a sequence of sequences.
Flatten(ss) == IF ss = <<>> THEN <<>> ELSE Head(ss) \o Flatten(Tail(ss))

RECURSIVE Choices(_)
\* All ways to pick one element from each set of a sequence of sets.
Choices(sets) ==
    IF sets = <<>> THEN {<<>>}
    ELSE {<<h>> \o t : h \in Head(sets), t \in Choices(Tail(sets))}

\* sub occurs in s as a contiguous run (strings.Contains on token sequences).
Contains(s, sub) ==
    \E i \in 0..(Len(s) - Len(sub)) : \A j \in 1..Len(sub) : s[i + j] = sub[j]

----------------------------------------------------------------------------
(* JSON text, as a syntax tree.                                            *)

JNull == [k |-> "null"]
JStr(s) == [k |-> "str", s |-> s]
JNum(n) == [k |-> "num", n |-> n]
JBool(b) == [k |-> "bool", b |-> b]
JArr(a) == [k |-> "arr", a |-> a]
\* members: a sequence of <<key, value>> in textual order
JObj(members) == [k |-> "obj", p |-> members]
\* text that is not JSON at all
JBad == [k |-> "bad"]

(* Go values held in an interface{}.                                       *)
GoNil == [t |-> "nil"]
GoString(s) == [t |-> "string", s |-> s]
GoFloat64(n) == [t |-> "float64", n |-> n]
GoInt(n) == [t |-> "int", n |-> n]
GoBool(b) == [t |-> "bool", b |-> b]
GoSlice(a) == [t |-> "slice", a |-> a]
GoMap(m) == [t |-> "map", m |-> m]

RECURSIVE Decode(_)
\* encoding/json decoding into interface{}: numbers become float64, arrays
\* []interface{}, objects map[string]interface{} (a repeated key keeps its
\* last value; the textual order of the members is not kept).
Decode(j) ==
    CASE j.k = "null" -> GoNil
      [] j.k = "str"  -> GoString(j.s)
      [] j.k = "num"  -> GoFloat64(j.n)
      [] j.k = "bool" -> GoBool(j.b)
      [] j.k = "arr"  -> GoSlice([i \in 1..Len(j.a) |-> Decode(j.a[i])])
      [] j.k = "obj"  ->
           LET keys == {j.p[i][1] : i \in 1..Len(j.p)}
               last(key) == CHOOSE i \in 1..Len(j.p) :
                               /\ j.p[i][1] = key
                               /\ \A i2 \in 1..Len(j.p) : j.p[i2][1] = key => i2 <= i
           IN  GoMap([key \in keys |-> Decode(j.p[last(key)][2])])

NoErr == [e |-> "nil"]

\* json.Unmarshal([]byte(jsonStr), &rawFilter) with rawFilter a
\* map[string]interface{}: text that is not JSON, or whose top level is not
\* an object (or null), is an error; null leaves the map nil (empty).
Unmarshal(j) ==
    CASE j.k = "obj"  -> [err |-> NoErr, m |-> Decode(j).m]
      [] j.k = "null" -> [err |-> NoErr, m |-> <<>>]
      [] OTHER        -> [err |-> [e |-> "json", what |-> j.k], m |-> <<>>]

----------------------------------------------------------------------------
(* operators.go: Operator, Filter, parseFilters.                           *)

OpEq  == "$eq"
OpNe  == "$ne"
OpLt  == "$lt"
OpLte == "$lte"
OpGt  == "$gt"
OpGte == "$gte"
OpIn  == "$in"
OpNin == "$nin"
OpAnd == "$and"
OpOr  == "$or"
\* used by sql.go; its declaration is not among the sources
OpLike == "$like"

\* Filter{Field, Operator, Value}; Filters is the nested list that elastic.go
\* and the tests use.
Filter(field, op, value, nested) ==
    [Field |-> field, Operator |-> op, Value |-> value, Filters |-> nested]

Comparison(field, op, value) == Filter(field, op, value, <<>>)

\* The filters appended for one field key of the map, for every order the
\* inner `for op, val := range v` loop may take.
FieldFilters(field, value) ==
    IF value.t = "map"
    THEN {[i \in 1..Len(p) |-> Comparison(field, p[i], value.m[p[i]])] :
              p \in Perms(DOMAIN value.m)}
    ELSE {<<Comparison(field, OpEq, value)>>}

RECURSIVE parseFilters(_)
\* The filter lists parseFilters may return for a decoded map, one for each
\* iteration order of the maps involved.  It never returns an error.
parseFilters(m) ==
    IF OpOr \in DOMAIN m /\ m[OpOr].t = "slice"
    THEN LET orFilters == m[OpOr].a
             sub(i) == IF orFilters[i].t = "map"
                       THEN parseFilters(orFilters[i].m)
                       ELSE {<<>>}
         IN  {Flatten(c) : c \in Choices([i \in 1..Len(orFilters) |-> sub(i)])}
    ELSE LET keys == DOMAIN m \ {OpOr, OpAnd}
         IN  UNION {{Flatten(c) : c \in Choices([i \in 1..Len(p) |-> FieldFilters(p[i], m[p[i]])])} :
                       p \in Perms(keys)}

\* ParseFilter: the possible results [err, filters].
ParseFilter(j) ==
    LET u == Unmarshal(j)
    IN  IF u.err # NoErr
        THEN {[err |-> [e |-> "parse", cause |-> u.err], filters |-> <<>>]}
        ELSE {[err |-> NoErr, filters |-> f] : f \in parseFilters(u.m)}

----------------------------------------------------------------------------
(* The model argument: a Go value described by its kind and, for a struct, *)
(* its fields with their `json` and `db` tags.  A json tag is given as its *)
(* comma-separated parts (strings.Split(tag, ",")); <<>> is no json tag.   *)

Field(name, json, db) == [Name |-> name, json |-> json, db |-> db]

StructOf(kind, fields) == [kind |-> kind, fields |-> fields]

\* reflect.ValueOf(v), with a pointer followed once
IsStruct(v) == v.kind \in {"struct", "ptr"}

\* getJSONTags: field name -> json name, for the fields that carry a json
\* tag whose name is not "-".
getJSONTags(v) ==
    IF ~IsStruct(v)
    THEN [err |-> [e |-> "not_struct", kind |-> v.kind], tags |-> <<>>]
    ELSE LET tagged == {i \in 1..Len(v.fields) :
                           /\ v.fields[i].json # <<>>
                           /\ v.fields[i].json[1] # "-"}
             names == {v.fields[i].Name : i \in tagged}
             idx(n) == CHOOSE i \in tagged : v.fields[i].Name = n
         IN  [err |-> NoErr, tags |-> [n \in names |-> v.fields[idx(n)].json[1]]]

\* getDBTags is called by sql.go and declared in none of the sources: it is
\* taken to read the `db` tag the way getJSONTags reads the `json` tag.
getDBTags(v) ==
    IF ~IsStruct(v)
    THEN [err |-> [e |-> "not_struct", kind |-> v.kind], tags |-> <<>>]
    ELSE LET tagged == {i \in 1..Len(v.fields) : v.fields[i].db \notin {"", "-"}}
             names == {v.fields[i].Name : i \in tagged}
             idx(n) == CHOOSE i \in tagged : v.fields[i].Name = n
         IN  [err |-> NoErr, tags |-> [n \in names |-> v.fields[idx(n)].db]]

\* The json names of a tag map (the values validateFields compares with).
TagValues(tags) == {tags[n] : n \in DOMAIN tags}

\* A jsonToDB that was never filled.
JsonToDB_Empty(jsonTags, dbTags) == <<>>

\* Apply's jsonToDB: json name -> db column, for the fields that have both.
\* (The models used here give every field its own json name.)
JsonToDB(jsonTags, dbTags) ==
    LET both == DOMAIN jsonTags \cap DOMAIN dbTags
    IN  [jt \in {jsonTags[n] : n \in both} |->
            dbTags[CHOOSE n \in both : jsonTags[n] = jt]]

(* QueryOptions{Sort map[string]SortDirection, Limit *int, Offset *int};   *)
(* NilOptions is the nil *QueryOptions.                                    *)
SortAsc == "asc"
SortDesc == "desc"
NilOptions == [nil |-> TRUE]
QueryOptions(sort, limit, offset) ==
    [nil |-> FALSE, Sort |-> sort, Limit |-> limit, Offset |-> offset]

\* validateFields over the top-level filters, in order; the error of the
\* first filter whose Field is no json name.
FilterFieldError(fs, tags) ==
    LET bad == {i \in 1..Len(fs) : fs[i].Field \notin TagValues(tags)}
    IN  IF bad = {} THEN NoErr
        ELSE LET i == CHOOSE i \in bad : \A j \in bad : i <= j
             IN  [e |-> "invalid_field", field |-> fs[i].Field]

\* validateFields without its second loop: the sort keys go unchecked.
validateFields_FiltersOnly(fs, opts, tags) == {FilterFieldError(fs, tags)}

\* validateFields: the errors it may return (the sort keys are visited in
\* map order, so which bad sort key is named is not fixed).
validateFields(fs, opts, tags) ==
    IF FilterFieldError(fs, tags) # NoErr THEN {FilterFieldError(fs, tags)}
    ELSE IF opts.nil THEN {NoErr}
    ELSE LET bad == {f \in DOMAIN opts.Sort : f \notin TagValues(tags)}
         IN  IF bad = {} THEN {NoErr}
             ELSE {[e |-> "invalid_sort_field", field |-> f] : f \in bad}

----------------------------------------------------------------------------
(* squirrel, as far as sql.go uses it.  A statement builder is a record;   *)
(* ZeroBuilder is the zero value (squirrel.SelectBuilder{}).               *)

Dollar == "Dollar"
Question == "Question"
AtP == "AtP"
PlaceholderFormats == {Dollar, Question, AtP}

ZeroBuilder == [set |-> FALSE]

\* squirrel.StatementBuilder.PlaceholderFormat(f).Select("*").From(table)
SelectFrom(f, table) ==
    [set |-> TRUE, fmt |-> f, table |-> table,
     where |-> <<>>, orderBy |-> <<>>, limit |-> <<>>, offset |-> <<>>]

\* The conditions buildCondition returns.
SqEq(col, v)     == [s |-> "Eq", col |-> col, val |-> v]
SqNotEq(col, v)  == [s |-> "NotEq", col |-> col, val |-> v]
SqLt(col, v)     == [s |-> "Lt", col |-> col, val |-> v]
SqLtOrEq(col, v) == [s |-> "LtOrEq", col |-> col, val |-> v]
SqGt(col, v)     == [s |-> "Gt", col |-> col, val |-> v]
SqGtOrEq(col, v) == [s |-> "GtOrEq", col |-> col, val |-> v]
SqExpr(sql, args) == [s |-> "Expr", sql |-> sql, args |-> args]
SqAnd(parts) == [s |-> "And", parts |-> parts]

Rendered(sql, args) == [err |-> NoErr, sql |-> sql, args |-> args]
RenderError(what) == [err |-> [e |-> "squirrel", what |-> what], sql |-> <<>>, args |-> <<>>]

RECURSIVE Placeholders(_)
\* squirrel.Placeholders(n): "?,?,...,?"
Placeholders(n) ==
    IF n <= 1 THEN <<"?">> ELSE <<"?", ",">> \o Placeholders(n - 1)

\* Eq.toSQL / NotEq: nil compares with IS [NOT] NULL, a slice with [NOT] IN
\* (an empty one with a constant), anything else with = or <>.
EqToSql(c, useNotOpr) ==
    LET equalOpr == IF useNotOpr THEN "<>" ELSE "="
        inOpr    == IF useNotOpr THEN <<"NOT", "IN">> ELSE <<"IN">>
        nullOpr  == IF useNotOpr THEN <<"IS", "NOT">> ELSE <<"IS">>
        inEmpty  == IF useNotOpr THEN "(1=1)" ELSE "(1=0)"
    IN  CASE c.val.t = "nil"   -> Rendered(<<c.col>> \o nullOpr \o <<"NULL">>, <<>>)
          [] c.val.t = "slice" ->
               IF Len(c.val.a) = 0
               THEN Rendered(<<inEmpty>>, <<>>)
               ELSE Rendered(<<c.col>> \o inOpr \o <<"(">> \o Placeholders(Len(c.val.a)) \o <<")">>,
                             c.val.a)
          [] OTHER -> Rendered(<<c.col, equalOpr, "?">>, <<c.val>>)

\* Lt.toSql and its variants: nil and slices are errors.
LtToSql(c, opr) ==
    CASE c.val.t = "nil"   -> RenderError("null with less than or greater than")
      [] c.val.t = "slice" -> RenderError("array or slice with less than or greater than")
      [] OTHER             -> Rendered(<<c.col, opr, "?">>, <<c.val>>)

\* ToSql of one leaf condition.
LeafToSql(c) ==
    CASE c.s = "Eq"     -> EqToSql(c, FALSE)
      [] c.s = "NotEq"  -> EqToSql(c, TRUE)
      [] c.s = "Lt"     -> LtToSql(c, "<")
      [] c.s = "LtOrEq" -> LtToSql(c, "<=")
      [] c.s = "Gt"     -> LtToSql(c, ">")
      [] c.s = "GtOrEq" -> LtToSql(c, ">=")
      [] c.s = "Expr"   -> Rendered(c.sql, c.args)

RECURSIVE JoinParts(_, _)
\* strings.Join over token sequences
JoinParts(parts, sep) ==
    IF parts = <<>> THEN <<>>
    ELSE IF Len(parts) = 1 THEN Head(parts)
    ELSE Head(parts) \o sep \o JoinParts(Tail(parts), sep)

\* conj.join for squirrel.And: the parts that render to text, joined by AND
\* inside one pair of parentheses; the first error wins.
AndToSql(c) ==
    LET r == [i \in 1..Len(c.parts) |-> LeafToSql(c.parts[i])]
        errs == {i \in 1..Len(r) : r[i].err # NoErr}
        kept == SelectSeq(r, LAMBDA x : x.sql # <<>>)
    IN  IF Len(c.parts) = 0 THEN Rendered(<<"(1=1)">>, <<>>)
        ELSE IF errs # {}
        THEN r[CHOOSE i \in errs : \A j \in errs : i <= j]
        ELSE IF kept = <<>> THEN Rendered(<<>>, <<>>)
        ELSE Rendered(<<"(">> \o JoinParts([i \in 1..Len(kept) |-> kept[i].sql], <<"AND">>) \o <<")">>,
                      Flatten([i \in 1..Len(kept) |-> kept[i].args]))

\* ToSql of one part of the WHERE clause.
PartToSql(c) == IF c.s = "And" THEN AndToSql(c) ELSE LeafToSql(c)

RECURSIVE ReplaceFrom(_, _, _)
\* The "?" tokens replaced from left to right by prefix1, prefix2, ...
ReplaceFrom(toks, prefix, n) ==
    IF toks = <<>> THEN <<>>
    ELSE IF Head(toks) = "?"
    THEN <<prefix \o ToString(n)>> \o ReplaceFrom(Tail(toks), prefix, n + 1)
    ELSE <<Head(toks)>> \o ReplaceFrom(Tail(toks), prefix, n)

\* PlaceholderFormat.ReplacePlaceholders
ReplacePlaceholders(f, toks) ==
    CASE f = Question -> toks
      [] f = Dollar   -> ReplaceFrom(toks, "$", 1)
      [] f = AtP      -> ReplaceFrom(toks, "@p", 1)

\* SelectBuilder.ToSql: SELECT * FROM t [WHERE ...] [ORDER BY ...] [LIMIT n]
\* [OFFSET n], the placeholders numbered over the whole text at the end.
SelectToSql(b) ==
    IF ~b.set THEN RenderError("select statements must have at least one result column")
    ELSE LET r == [i \in 1..Len(b.where) |-> PartToSql(b.where[i])]
             errs == {i \in 1..Len(r) : r[i].err # NoErr}
             kept == SelectSeq(r, LAMBDA x : x.sql # <<>>)
             whereSql == IF Len(b.where) = 0 THEN <<>>
                         ELSE <<"WHERE">> \o JoinParts([i \in 1..Len(kept) |-> kept[i].sql], <<"AND">>)
             orderSql == IF Len(b.orderBy) = 0 THEN <<>>
                         ELSE <<"ORDER", "BY">> \o JoinParts(b.orderBy, <<",">>)
             limitSql == IF b.limit = <<>> THEN <<>> ELSE <<"LIMIT">> \o b.limit
             offsetSql == IF b.offset = <<>> THEN <<>> ELSE <<"OFFSET">> \o b.offset
         IN  IF errs # {}
             THEN r[CHOOSE i \in errs : \A j \in errs : i <= j]
             ELSE Rendered(ReplacePlaceholders(b.fmt,
                               <<"SELECT", "*", "FROM", b.table>> \o whereSql \o orderSql
                                   \o limitSql \o offsetSql),
                           Flatten([i \in 1..Len(kept) |-> kept[i].args]))

----------------------------------------------------------------------------
(* sql.go: SqlBuilder.                                                     *)

selectQuery == 0
updateQuery == 1
deleteQuery == 2
insertQuery == 3

\* &SqlBuilder{ctx: ctx, placeholderFormat: f}
NewSqlBuilderWithPlaceholderFormat(f) ==
    [queryType |-> selectQuery,
     selectBuilder |-> ZeroBuilder, updateBuilder |-> ZeroBuilder,
     deleteBuilder |-> ZeroBuilder, insertBuilder |-> ZeroBuilder,
     placeholderFormat |-> f]

NewSqlBuilder == NewSqlBuilderWithPlaceholderFormat(Dollar)

\* qb.placeholderFormat = format
SetPlaceholderFormat(b, f) == [b EXCEPT !.placeholderFormat = f]

\* return qb.placeholderFormat
GetPlaceholderFormat(b) == b.placeholderFormat

\* WithSelect that does not read the builder's placeholder format.
WithSelect_DollarOnly(b, table) ==
    [b EXCEPT !.selectBuilder = SelectFrom(Dollar, table),
              !.queryType = selectQuery]

WithSelect(b, table) ==
    [b EXCEPT !.selectBuilder = SelectFrom(b.placeholderFormat, table),
              !.queryType = selectQuery]

WithUpdate(b, table) ==
    [b EXCEPT !.updateBuilder = SelectFrom(b.placeholderFormat, table),
              !.queryType = updateQuery]

\* WithDelete that leaves the query type as it was.
WithDelete_TypeKept(b, table) ==
    [b EXCEPT !.deleteBuilder = SelectFrom(b.placeholderFormat, table)]

WithDelete(b, table) ==
    [b EXCEPT !.deleteBuilder = SelectFrom(b.placeholderFormat, table),
              !.queryType = deleteQuery]

WithInsert(b, table) ==
    [b EXCEPT !.insertBuilder = SelectFrom(b.placeholderFormat, table),
              !.queryType = insertQuery]

Panic(what) == [e |-> "panic", what |-> what]

\* buildCondition binding the value of OpLike as it is written, without the
\* "%" on either side.
buildCondition_LikeAsWritten(f, jsonToDB) ==
    LET dbField == IF f.Field \in DOMAIN jsonToDB THEN jsonToDB[f.Field] ELSE f.Field
        ok(c) == [err |-> NoErr, cond |-> c]
    IN  CASE f.Operator = OpEq  -> ok(SqEq(dbField, f.Value))
          [] f.Operator = OpNe  -> ok(SqNotEq(dbField, f.Value))
          [] f.Operator = OpLt  -> ok(SqLt(dbField, f.Value))
          [] f.Operator = OpLte -> ok(SqLtOrEq(dbField, f.Value))
          [] f.Operator = OpGt  -> ok(SqGt(dbField, f.Value))
          [] f.Operator = OpGte -> ok(SqGtOrEq(dbField, f.Value))
          [] f.Operator = OpIn  -> ok(SqEq(dbField, f.Value))
          [] f.Operator = OpNin -> ok(SqNotEq(dbField, f.Value))
          [] f.Operator = OpLike ->
               IF f.Value.t = "string"
               THEN ok(SqExpr(<<dbField, "ILIKE", "?">>, <<f.Value>>))
               ELSE [err |-> Panic("interface conversion"), cond |-> SqAnd(<<>>)]
          [] OTHER -> [err |-> [e |-> "unsupported_operator", op |-> f.Operator],
                       cond |-> SqAnd(<<>>)]

\* buildCondition: [err, cond]
buildCondition(f, jsonToDB) ==
    LET dbField == IF f.Field \in DOMAIN jsonToDB THEN jsonToDB[f.Field] ELSE f.Field
        ok(c) == [err |-> NoErr, cond |-> c]
    IN  CASE f.Operator = OpEq  -> ok(SqEq(dbField, f.Value))
          [] f.Operator = OpNe  -> ok(SqNotEq(dbField, f.Value))
          [] f.Operator = OpLt  -> ok(SqLt(dbField, f.Value))
          [] f.Operator = OpLte -> ok(SqLtOrEq(dbField, f.Value))
          [] f.Operator = OpGt  -> ok(SqGt(dbField, f.Value))
          [] f.Operator = OpGte -> ok(SqGtOrEq(dbField, f.Value))
          [] f.Operator = OpIn  -> ok(SqEq(dbField, f.Value))
          [] f.Operator = OpNin -> ok(SqNotEq(dbField, f.Value))
          [] f.Operator = OpLike ->
               \* filter.Value.(string) panics when the value is no string
               IF f.Value.t = "string"
               THEN ok(SqExpr(<<dbField, "ILIKE", "?">>, <<GoString("%" \o f.Value.s \o "%")>>))
               ELSE [err |-> Panic("interface conversion"), cond |-> SqAnd(<<>>)]
          [] OTHER -> [err |-> [e |-> "unsupported_operator", op |-> f.Operator],
                       cond |-> SqAnd(<<>>)]

\* applySelectFilters without the `len(conditions) > 0` test: the conjunction
\* is added to the statement even when it is empty.
applySelectFilters_Unguarded(b, fs, jsonToDB) ==
    LET r == [i \in 1..Len(fs) |-> buildCondition(fs[i], jsonToDB)]
        errs == {i \in 1..Len(r) : r[i].err # NoErr}
    IN  IF errs # {}
        THEN [err |-> r[CHOOSE i \in errs : \A j \in errs : i <= j].err, qb |-> b]
        ELSE [err |-> NoErr,
              qb |-> [b EXCEPT !.selectBuilder.where =
                                   Append(@, SqAnd([i \in 1..Len(r) |-> r[i].cond]))]]

\* applySelectFilters calling Where inside its loop: the conditions built
\* before a failing one are in the statement when it returns the error.
applySelectFilters_WhereInLoop(b, fs, jsonToDB) ==
    LET r == [i \in 1..Len(fs) |-> buildCondition(fs[i], jsonToDB)]
        errs == {i \in 1..Len(r) : r[i].err # NoErr}
        first == IF errs = {} THEN Len(fs) + 1 ELSE CHOOSE i \in errs : \A j \in errs : i <= j
        built == [i \in 1..(first - 1) |-> r[i].cond]
    IN  [err |-> IF errs = {} THEN NoErr ELSE r[first].err,
         qb |-> IF Len(built) > 0
                THEN [b EXCEPT !.selectBuilder.where = Append(@, SqAnd(built))]
                ELSE b]

\* applySelectFilters assigning a fresh WHERE clause: what was applied
\* before is replaced.
applySelectFilters_Replacing(b, fs, jsonToDB) ==
    LET r == [i \in 1..Len(fs) |-> buildCondition(fs[i], jsonToDB)]
        errs == {i \in 1..Len(r) : r[i].err # NoErr}
        conditions == [i \in 1..Len(r) |-> r[i].cond]
    IN  IF errs # {}
        THEN [err |-> r[CHOOSE i \in errs : \A j \in errs : i <= j].err, qb |-> b]
        ELSE IF Len(conditions) > 0
        THEN [err |-> NoErr,
              qb |-> [b EXCEPT !.selectBuilder.where = <<SqAnd(conditions)>>]]
        ELSE [err |-> NoErr, qb |-> b]

\* applySelectFilters: [err, qb]; the builder is touched only after every
\* condition has been built.
applySelectFilters(b, fs, jsonToDB) ==
    LET r == [i \in 1..Len(fs) |-> buildCondition(fs[i], jsonToDB)]
        errs == {i \in 1..Len(r) : r[i].err # NoErr}
        conditions == [i \in 1..Len(r) |-> r[i].cond]
    IN  IF errs # {}
        THEN [err |-> r[CHOOSE i \in errs : \A j \in errs : i <= j].err, qb |-> b]
        ELSE IF Len(conditions) > 0
        THEN [err |-> NoErr,
              qb |-> [b EXCEPT !.selectBuilder.where = Append(@, SqAnd(conditions))]]
        ELSE [err |-> NoErr, qb |-> b]

\* fmt.Sprintf("%d", uint64(n)): a negative n reads as 2^64 + n.  2^64 is
\* 18446744073709551616; for n down to -1616 only its last four digits
\* change, and below that the text is written as that of 2^64 followed by n.
Uint64Text(n) ==
    LET last4 == 1616 + n
        pad == IF last4 < 10 THEN "000" ELSE IF last4 < 100 THEN "00"
               ELSE IF last4 < 1000 THEN "0" ELSE ""
    IN  IF n >= 0 THEN ToString(n)
        ELSE IF last4 >= 0 THEN "1844674407370955" \o pad \o ToString(last4)
        ELSE "18446744073709551616" \o ToString(n)

\* applyOptions: the builders it may leave, one for each order in which the
\* Sort map is visited.
applyOptions(b, opts, jsonToDB) ==
    IF opts.nil THEN {b}
    ELSE LET dbField(f) == IF f \in DOMAIN jsonToDB THEN jsonToDB[f] ELSE f
             seg(f) == <<dbField(f), IF opts.Sort[f] = SortDesc THEN "DESC" ELSE "ASC">>
             lim(sb) == IF opts.Limit.t = "nil" THEN sb
                        ELSE [sb EXCEPT !.limit = <<Uint64Text(opts.Limit.n)>>]
             off(sb) == IF opts.Offset.t = "nil" THEN sb
                        ELSE [sb EXCEPT !.offset = <<Uint64Text(opts.Offset.n)>>]
         IN  {[b EXCEPT !.selectBuilder =
                   off(lim([@ EXCEPT !.orderBy = @ \o [i \in 1..Len(p) |-> seg(p[i])]]))] :
                 p \in Perms(DOMAIN opts.Sort)}

\* The assignments `qb.selectBuilder = qb.selectBuilder.X(...)` of
\* applySelectFilters and applyOptions, as values.
WhereUpdate(cond)  == [u |-> "Where", x |-> cond]
OrderByUpdate(seg) == [u |-> "OrderBy", x |-> seg]
LimitUpdate(n)     == [u |-> "Limit", x |-> n]
OffsetUpdate(n)    == [u |-> "Offset", x |-> n]

\* The right-hand side of such an assignment, for the select builder sb.
Updated(sb, u) ==
    CASE u.u = "Where"   -> [sb EXCEPT !.where = Append(@, u.x)]
      [] u.u = "OrderBy" -> [sb EXCEPT !.orderBy = Append(@, u.x)]
      [] u.u = "Limit"   -> [sb EXCEPT !.limit = <<u.x>>]
      [] u.u = "Offset"  -> [sb EXCEPT !.offset = <<u.x>>]

\* The assignments one Apply call on a select builder makes, in order, after
\* the validation: [err, todo], one for each order in which the Sort map is
\* visited.  (With an error nothing is assigned.)
ApplyUpdates(fs, opts, mdl) ==
    LET jt == getJSONTags(mdl)
        dt == getDBTags(mdl)
        jsonToDB == JsonToDB(jt.tags, dt.tags)
        fail(e) == [err |-> e, todo |-> <<>>]
        r == [i \in 1..Len(fs) |-> buildCondition(fs[i], jsonToDB)]
        errs == {i \in 1..Len(r) : r[i].err # NoErr}
        where == IF Len(fs) > 0 THEN <<WhereUpdate(SqAnd([i \in 1..Len(r) |-> r[i].cond]))>>
                 ELSE <<>>
        dbField(f) == IF f \in DOMAIN jsonToDB THEN jsonToDB[f] ELSE f
        seg(f) == <<dbField(f), IF opts.Sort[f] = SortDesc THEN "DESC" ELSE "ASC">>
        lim == IF opts.Limit.t = "nil" THEN <<>> ELSE <<LimitUpdate(Uint64Text(opts.Limit.n))>>
        off == IF opts.Offset.t = "nil" THEN <<>> ELSE <<OffsetUpdate(Uint64Text(opts.Offset.n))>>
    IN  IF jt.err # NoErr THEN {fail([e |-> "json_tags", cause |-> jt.err])}
        ELSE IF dt.err # NoErr THEN {fail([e |-> "db_tags", cause |-> dt.err])}
        ELSE IF validateFields(fs, opts, jt.tags) # {NoErr}
        THEN {fail(e) : e \in validateFields(fs, opts, jt.tags)}
        ELSE IF errs # {}
        THEN {fail(r[CHOOSE i \in errs : \A j \in errs : i <= j].err)}
        ELSE IF opts.nil THEN {[err |-> NoErr, todo |-> where]}
        ELSE {[err |-> NoErr,
               todo |-> where \o [i \in 1..Len(p) |-> OrderByUpdate(seg(p[i]))] \o lim \o off] :
                 p \in Perms(DOMAIN opts.Sort)}

\* Apply: the outcomes [err, qb, ret]; qb is the builder behind the receiver
\* after the call, ret tells whether a builder (and not nil) is returned.
Apply(b, fs, opts, mdl) ==
    LET jt == getJSONTags(mdl)
        dt == getDBTags(mdl)
        jsonToDB == JsonToDB(jt.tags, dt.tags)
        fail(e) == [err |-> e, qb |-> b, ret |-> FALSE]
    IN  IF jt.err # NoErr THEN {fail([e |-> "json_tags", cause |-> jt.err])}
        ELSE IF dt.err # NoErr THEN {fail([e |-> "db_tags", cause |-> dt.err])}
        ELSE IF validateFields(fs, opts, jt.tags) # {NoErr}
        THEN {fail(e) : e \in validateFields(fs, opts, jt.tags)}
        ELSE IF b.selectBuilder # ZeroBuilder
        THEN LET a == applySelectFilters(b, fs, jsonToDB)
             IN  IF a.err # NoErr THEN {[err |-> a.err, qb |-> a.qb, ret |-> FALSE]}
                 ELSE {[err |-> NoErr, qb |-> b2, ret |-> TRUE] :
                          b2 \in applyOptions(a.qb, opts, jsonToDB)}
        ELSE {[err |-> NoErr, qb |-> b, ret |-> TRUE]}

\* The other statement kinds, with nothing but the table set: squirrel
\* renders DELETE FROM t, and refuses an UPDATE without a SET clause and an
\* INSERT without values.
UpdateToSql(b) == RenderError("update statements must have at least one Set clause")
DeleteToSql(b) ==
    IF ~b.set THEN RenderError("delete statements must specify a From table")
    ELSE Rendered(<<"DELETE", "FROM", b.table>>, <<>>)
InsertToSql(b) ==
    IF ~b.set THEN RenderError("insert statements must specify a table")
    ELSE RenderError("insert statements must have at least one set of values or select clause")

\* SqlBuilder.ToSql
ToSql(b) ==
    CASE b.queryType = selectQuery -> SelectToSql(b.selectBuilder)
      [] b.queryType = updateQuery -> UpdateToSql(b.updateBuilder)
      [] b.queryType = deleteQuery -> DeleteToSql(b.deleteBuilder)
      [] b.queryType = insertQuery -> InsertToSql(b.insertBuilder)
      [] OTHER -> [err |-> [e |-> "invalid_query_type"], sql |-> <<>>, args |-> <<>>]

----------------------------------------------------------------------------
(* elastic.go: ElasticBuilder, over the olivere/elastic query types.       *)

\* elastic.NewBoolQuery() and its Must / MustNot / Should /
\* MinimumNumberShouldMatch setters
BoolQuery(must, mustNot, should, msm) ==
    [q |-> "bool", must |-> must, mustNot |-> mustNot, should |-> should,
     minimumShouldMatch |-> msm]
NewBoolQuery == BoolQuery(<<>>, <<>>, <<>>, "")
TermQuery(name, v) == [q |-> "term", name |-> name, value |-> v]
TermsQuery(name, vs) == [q |-> "terms", name |-> name, values |-> vs]
\* NewRangeQuery(name) includes both ends; Gt/Lt exclude theirs
RangeQuery(name, from, to, incLower, incUpper) ==
    [q |-> "range", name |-> name, from |-> from, to |-> to,
     includeLower |-> incLower, includeUpper |-> incUpper]
\* the nil elastic.Query
NilQuery == [q |-> "nil"]

\* orQuery of buildQuery: the sub-queries under should, one of them at
\* least to match (MinimumNumberShouldMatch(1) is kept as the text "1").
orQuery_NoMinimum(subQueries) == BoolQuery(<<>>, <<>>, subQueries, "")
orQuery(subQueries) == BoolQuery(<<>>, <<>>, subQueries, "1")

\* andQuery of buildQuery: the sub-queries under must.
andQuery(subQueries) == BoolQuery(subQueries, <<>>, <<>>, "")

\* The switch of buildQuery with Lt and Lte, and Gt and Gte, exchanged.
regularQuery_BoundsExchanged(f) ==
    LET ok(x) == [err |-> NoErr, query |-> x]
        panic == [err |-> Panic("interface conversion"), query |-> NilQuery]
    IN  CASE f.Operator = OpEq  -> ok(TermQuery(f.Field, f.Value))
          [] f.Operator = OpNe  ->
               ok(BoolQuery(<<>>, <<TermQuery(f.Field, f.Value)>>, <<>>, ""))
          [] f.Operator = OpLt  -> ok(RangeQuery(f.Field, GoNil, f.Value, TRUE, TRUE))
          [] f.Operator = OpLte -> ok(RangeQuery(f.Field, GoNil, f.Value, TRUE, FALSE))
          [] f.Operator = OpGt  -> ok(RangeQuery(f.Field, f.Value, GoNil, TRUE, TRUE))
          [] f.Operator = OpGte -> ok(RangeQuery(f.Field, f.Value, GoNil, FALSE, TRUE))
          [] f.Operator = OpIn  ->
               IF f.Value.t = "slice" THEN ok(TermsQuery(f.Field, f.Value.a)) ELSE panic
          [] f.Operator = OpNin ->
               IF f.Value.t = "slice"
               THEN ok(BoolQuery(<<>>, <<TermsQuery(f.Field, f.Value.a)>>, <<>>, ""))
               ELSE panic
          [] OTHER -> ok(NilQuery)

\* The switch of buildQuery over the regular operators: [err, query].  An
\* operator it does not know gives the nil query and no error; .([]any) on a
\* value that is no slice panics.
regularQuery(f) ==
    LET ok(x) == [err |-> NoErr, query |-> x]
        panic == [err |-> Panic("interface conversion"), query |-> NilQuery]
    IN  CASE f.Operator = OpEq  -> ok(TermQuery(f.Field, f.Value))
          [] f.Operator = OpNe  ->
               ok(BoolQuery(<<>>, <<TermQuery(f.Field, f.Value)>>, <<>>, ""))
          [] f.Operator = OpLt  -> ok(RangeQuery(f.Field, GoNil, f.Value, TRUE, FALSE))
          [] f.Operator = OpLte -> ok(RangeQuery(f.Field, GoNil, f.Value, TRUE, TRUE))
          [] f.Operator = OpGt  -> ok(RangeQuery(f.Field, f.Value, GoNil, FALSE, TRUE))
          [] f.Operator = OpGte -> ok(RangeQuery(f.Field, f.Value, GoNil, TRUE, TRUE))
          [] f.Operator = OpIn  ->
               IF f.Value.t = "slice" THEN ok(TermsQuery(f.Field, f.Value.a)) ELSE panic
          [] f.Operator = OpNin ->
               IF f.Value.t = "slice"
               THEN ok(BoolQuery(<<>>, <<TermsQuery(f.Field, f.Value.a)>>, <<>>, ""))
               ELSE panic
          [] OTHER -> ok(NilQuery)

RECURSIVE buildQuery(_)
\* buildQuery: [err, query].  OpOr and OpAnd lower the nested Filters and do
\* not read Field or Value.
buildQuery(f) ==
    LET sub == [i \in 1..Len(f.Filters) |-> buildQuery(f.Filters[i])]
        errs == {i \in 1..Len(sub) : sub[i].err # NoErr}
        firstErr == sub[CHOOSE i \in errs : \A j \in errs : i <= j]
        subQueries == [i \in 1..Len(sub) |-> sub[i].query]
    IN  IF f.Operator = OpOr
        THEN IF errs # {} THEN [err |-> firstErr.err, query |-> NilQuery]
             ELSE [err |-> NoErr, query |-> orQuery(subQueries)]
        ELSE IF f.Operator = OpAnd
        THEN IF errs # {} THEN [err |-> firstErr.err, query |-> NilQuery]
             ELSE [err |-> NoErr, query |-> andQuery(subQueries)]
        ELSE regularQuery(f)

\* ElasticBuilder.Apply: [err, query]; the options and the model are not
\* read.
ElasticApply(fs) ==
    LET sub == [i \in 1..Len(fs) |-> buildQuery(fs[i])]
        errs == {i \in 1..Len(sub) : sub[i].err # NoErr}
    IN  IF errs # {}
        THEN [err |-> sub[CHOOSE i \in errs : \A j \in errs : i <= j].err, query |-> NilQuery]
        ELSE [err |-> NoErr,
              query |-> BoolQuery([i \in 1..Len(sub) |-> sub[i].query], <<>>, <<>>, "")]

RECURSIVE Encode(_)
\* json.Marshal of a Go value (map keys are not needed here)
Encode(v) ==
    CASE v.t = "nil"     -> JNull
      [] v.t = "string"  -> JStr(v.s)
      [] v.t = "float64" -> JNum(v.n)
      [] v.t = "int"     -> JNum(v.n)
      [] v.t = "bool"    -> JBool(v.b)
      [] v.t = "slice"   -> JArr([i \in 1..Len(v.a) |-> Encode(v.a[i])])
      [] OTHER           -> JNull

RECURSIVE Source(_)
\* Query.Source() marshalled to JSON (object members in key order).  A
\* clause list of one is written as the clause, a longer one as an array, an
\* empty one not at all.  Source() on the nil query is a nil dereference,
\* written JBad.
Source(x) ==
    LET clause(name, qs) ==
            IF Len(qs) = 0 THEN <<>>
            ELSE IF Len(qs) = 1 THEN << <<name, Source(qs[1])>> >>
            ELSE << <<name, JArr([i \in 1..Len(qs) |-> Source(qs[i])])>> >>
    IN  CASE x.q = "nil" -> JBad
          [] x.q = "term" -> JObj(<< <<"term", JObj(<< <<x.name, Encode(x.value)>> >>)>> >>)
          [] x.q = "terms" ->
               JObj(<< <<"terms", JObj(<< <<x.name, Encode(GoSlice(x.values))>> >>)>> >>)
          [] x.q = "range" ->
               JObj(<< <<"range", JObj(<< <<x.name,
                   JObj(<< <<"from", Encode(x.from)>>,
                           <<"include_lower", JBool(x.includeLower)>>,
                           <<"include_upper", JBool(x.includeUpper)>>,
                           <<"to", Encode(x.to)>> >>)>> >>)>> >>)
          [] x.q = "bool" ->
               JObj(<< <<"bool", JObj(
                   (IF x.minimumShouldMatch = "" THEN <<>>
                    ELSE << <<"minimum_should_match", JStr(x.minimumShouldMatch)>> >>)
                   \o clause("must", x.must)
                   \o clause("must_not", x.mustNot)
                   \o clause("should", x.should))>> >>)

----------------------------------------------------------------------------
(* The inputs the calls are made with.                                     *)

\* {field: value}
Cmp(field, v) == JObj(<< <<field, v>> >>)
\* {op: value}
OpObject(op, v) == JObj(<< <<op, v>> >>)

DocArray == JArr(<<JNum(20), JNum(30)>>)

\* operator keys written in a field's object: the known ones, one unknown
\* keyword and one plain key
DocOps == {OpEq, OpNe, OpLt, OpLte, OpGt, OpGte, OpIn, OpNin, OpLike, "$regex", "a"}

\* values of a top-level field key
FieldVals ==
    {JStr("mike"), JNum(20), JNull, DocArray}
    \cup {OpObject(op, v) : op \in DocOps, v \in {JStr("mike"), JNum(20), DocArray}}
    \cup {JObj(<< <<OpGt, JNum(20)>>, <<OpLt, JNum(30)>> >>)}

LeafVals == {JStr("mike"), JNum(20), OpObject(OpGt, JNum(20))}

\* documents of field keys only
FieldDocs ==
    {JObj(<<>>)}
    \cup {Cmp("age", v) : v \in FieldVals}
    \cup {Cmp("firstname", OpObject(OpLike, JStr("50%")))}
    \cup {Cmp(f, v) : f \in {"email", "password", "Lastname", "email_address", "token"}, v \in LeafVals}
    \cup {JObj(<< <<f[1], v1>>, <<f[2], v2>> >>) :
             f \in {<<"age", "name">>, <<"name", "age">>, <<"age", "age">>},
             v1 \in LeafVals, v2 \in LeafVals}

\* elements of a `$or`/`$and` array: comparisons, an empty object, a value
\* that is no object, and nested groups
Elem0 ==
    {Cmp("firstname", OpObject(OpLike, JStr("Rom"))),
     Cmp("lastname", OpObject(OpLike, JStr("Rom"))),
     Cmp("firstname", JStr("John"))}
Elems ==
    Elem0
    \cup {JObj(<<>>), JStr("Rom")}
    \cup {JObj(<< <<c, JArr(<<Cmp("firstname", JStr("John")),
                              Cmp("lastname", OpObject(OpLike, JStr("Rom")))>>)>> >>) :
             c \in {OpOr, OpAnd}}

Arrays == UNION {[1..n -> Elems] : n \in 0..MaxArr}

\* documents with a combinator key: alone, followed by a field key, and
\* with a value that is no array
GroupDocs ==
    {JObj(<< <<c, JArr(a)>> >>) : c \in {OpOr, OpAnd}, a \in Arrays}
    \cup {JObj(<< <<c, JArr(a)>>, <<"age", OpObject(OpGt, JNum(20))>> >>) :
             c \in {OpOr, OpAnd}, a \in {<<>>} \cup {<<e>> : e \in Elems}}
    \cup {JObj(<< <<c, JStr("Rom")>> >>) : c \in {OpOr, OpAnd}}
    \cup {JObj(<< <<OpOr, JArr(<<a>>)>>, <<OpAnd, JArr(<<b>>)>> >>) : a \in Elem0, b \in Elem0}

\* text that is no filter object
BadDocs == {JBad, JNull, JArr(<<>>), JStr("Rom")}

Docs == FieldDocs \cup GroupDocs \cup BadDocs

\* no ParseFilter call yet / the filters were written in Go
NoDoc == [k |-> "none"]
GoLiteral == [k |-> "go"]

(* Filter lists written in Go.                                             *)
AllOperators ==
    {OpEq, OpNe, OpLt, OpLte, OpGt, OpGte, OpIn, OpNin, OpLike, OpAnd, OpOr, "$regex"}

GoValues == {GoString("John"), GoInt(25), GoNil, GoSlice(<<GoInt(25), GoInt(30)>>), GoSlice(<<>>)}

LeafFilters == {Comparison("age", op, v) : op \in AllOperators, v \in GoValues}

SmallLeaves ==
    {Comparison("firstname", OpEq, GoString("John")),
     Comparison("age", OpLte, GoInt(25)),
     Comparison("password", OpEq, GoString("John"))}

\* groups: Field "", Operator OpOr/OpAnd, nested Filters (one level, and a
\* group within a group)
Groups1 == {Filter("", c, GoNil, <<a, b>>) : c \in {OpOr, OpAnd}, a \in SmallLeaves, b \in SmallLeaves}
Groups2 ==
    {Filter("", c, GoNil, <<Comparison("firstname", OpEq, GoString("John")), g>>) :
         c \in {OpOr, OpAnd},
         g \in {Filter("", d, GoNil, <<Comparison("age", OpLte, GoInt(25)),
                                       Comparison("age", OpGte, GoInt(25))>>) : d \in {OpOr, OpAnd}}}
    \cup {Filter("", c, GoNil, <<>>) : c \in {OpOr, OpAnd}}
    \cup {Filter("", c, GoNil, <<Comparison("age", op, GoString("John"))>>) :
             c \in {OpOr, OpAnd}, op \in {OpLike, OpIn, "$regex"}}

FilterLists ==
    {<<>>}
    \cup {<<f>> : f \in LeafFilters \cup SmallLeaves \cup Groups1 \cup Groups2}
    \cup {<<a, b>> : a \in SmallLeaves, b \in SmallLeaves \cup Groups1 \cup Groups2}

(* Models.                                                                 *)
UserFields ==
    <<Field("Firstname", <<"firstname">>, "firstname"),
      Field("Lastname", <<"lastname", "omitempty">>, "lastname"),
      Field("Age", <<"age">>, ""),
      Field("Name", <<"name">>, ""),
      Field("Email", <<"email">>, "email_address"),
      Field("Password", <<"-">>, "password"),
      Field("Token", <<>>, "token")>>

User == StructOf("struct", UserFields)
UserPtr == StructOf("ptr", UserFields)
\* a struct without tags
UserNoTags == StructOf("struct", <<Field("Name", <<>>, ""), Field("Age", <<>>, "")>>)
\* a value that is no struct
NotAStruct == StructOf("int", <<>>)

NoModel == [kind |-> "none"]

(* Options.                                                                *)
NoInt == GoNil
SortOf(f, d) == [x \in {f} |-> d]

\* the (model, options) pairs Apply is called with
ApplyArgs ==
    {<<User, NilOptions>>,
     <<User, QueryOptions(<<>>, NoInt, NoInt)>>,
     <<User, QueryOptions(SortOf("age", SortDesc), GoInt(10), GoInt(20))>>,
     <<User, QueryOptions(<<>>, GoInt(-1), GoInt(-20))>>,
     <<User, QueryOptions([x \in {"age", "name"} |-> IF x = "age" THEN SortDesc ELSE SortAsc],
                          NoInt, NoInt)>>,
     <<User, QueryOptions(SortOf("password", SortDesc), NoInt, NoInt)>>,
     <<User, QueryOptions(SortOf("email", SortAsc), NoInt, NoInt)>>,
     <<User, QueryOptions(SortOf("email_address", SortAsc), NoInt, NoInt)>>,
     <<UserPtr, NilOptions>>,
     <<UserNoTags, NilOptions>>,
     <<NotAStruct, NilOptions>>}

Tables == {"players"}

----------------------------------------------------------------------------
(* The calls, as actions.  One caller takes a filter list (parsed from     *)
(* JSON or written in Go) and lowers it for one backend: either it sets a  *)
(* SqlBuilder up, applies the list once and renders the statement, or it   *)
(* hands the list to the ElasticBuilder.                                   *)

\* The calls made on the builder that bear on its placeholder style, in the
\* order they were made.
Constructed(f) == [op |-> "New", f |-> f]
FormatSet(f)   == [op |-> "SetPlaceholderFormat", f |-> f]
Selected(kind) == [op |-> "With", kind |-> kind]
\* ... and the Apply calls, where a caller makes several.
Applied(fs, opts, mdl, err) == [op |-> "Apply", fs |-> fs, opts |-> opts, mdl |-> mdl, err |-> err]

\* No goroutine is inside Apply.
NoThreads == <<>>

NotCalled == [called |-> FALSE]
Returned(r) == [called |-> TRUE, r |-> r]

Init ==
    /\ doc = NoDoc
    /\ filters = <<>>
    /\ qb \in {NewSqlBuilder} \cup {NewSqlBuilderWithPlaceholderFormat(f) : f \in PlaceholderFormats}
    /\ model = NoModel
    /\ options = NilOptions
    /\ out = [parse |-> NotCalled, apply |-> NotCalled, sql |-> NotCalled, es |-> NotCalled,
              get |-> NotCalled]
    /\ history = <<Constructed(qb.placeholderFormat)>>
    /\ threads = NoThreads

HasTarget(b) ==
    \/ b.selectBuilder.set \/ b.updateBuilder.set \/ b.deleteBuilder.set \/ b.insertBuilder.set

\* filters, err := ParseFilter(d)
CallParseFilter(d) ==
    /\ doc = NoDoc
    /\ \E r \in ParseFilter(d) :
          /\ filters' = r.filters
          /\ out' = [out EXCEPT !.parse = Returned(r)]
    /\ doc' = d
    /\ UNCHANGED <<qb, model, options, history, threads>>

\* filters := []Filter{...}
UseFilters(fs) ==
    /\ doc = NoDoc
    /\ filters' = fs
    /\ doc' = GoLiteral
    /\ UNCHANGED <<qb, model, options, out, history, threads>>

\* qb.WithSelect(t) / WithUpdate / WithDelete / WithInsert, once per builder
\* and before Apply
CallWith(kind, t) ==
    /\ ~HasTarget(qb)
    /\ ~out.apply.called
    /\ ~out.es.called
    /\ qb' = CASE kind = selectQuery -> WithSelect(qb, t)
               [] kind = updateQuery -> WithUpdate(qb, t)
               [] kind = deleteQuery -> WithDelete(qb, t)
               [] kind = insertQuery -> WithInsert(qb, t)
    /\ out' = [out EXCEPT !.sql = NotCalled]
    /\ history' = Append(history, Selected(kind))
    /\ UNCHANGED <<doc, filters, model, options, threads>>

\* qb.Apply(filters, opts, mdl), once per builder
CallApply(mdl, opts) ==
    /\ doc # NoDoc
    /\ ~out.apply.called
    /\ ~out.es.called
    /\ \E r \in Apply(qb, filters, opts, mdl) :
          /\ qb' = r.qb
          /\ out' = [out EXCEPT !.apply = Returned([err |-> r.err, ret |-> r.ret]),
                                !.sql = NotCalled]
    /\ model' = mdl
    /\ options' = opts
    /\ UNCHANGED <<doc, filters, history, threads>>

\* sql, args, err := qb.ToSql()
CallToSql ==
    /\ ~out.sql.called
    /\ ~out.es.called
    /\ out' = [out EXCEPT !.sql = Returned(ToSql(qb))]
    /\ UNCHANGED <<doc, filters, qb, model, options, history, threads>>

\* query, err := NewElasticBuilder(ss).Apply(filters, nil, mdl)
CallElasticApply(mdl) ==
    /\ doc # NoDoc
    /\ ~out.es.called
    /\ ~HasTarget(qb) /\ ~out.apply.called /\ ~out.sql.called
    /\ out' = [out EXCEPT !.es = Returned(ElasticApply(filters))]
    /\ model' = mdl
    /\ UNCHANGED <<doc, filters, qb, options, history, threads>>

Next ==
    \/ \E d \in Docs : CallParseFilter(d)
    \/ \E fs \in FilterLists : UseFilters(fs)
    \/ \E kind \in {selectQuery, updateQuery, deleteQuery, insertQuery}, t \in Tables : CallWith(kind, t)
    \/ \E a \in ApplyArgs : CallApply(a[1], a[2])
    \/ CallToSql
    \/ \E mdl \in {User} : CallElasticApply(mdl)

Spec == Init /\ [][Next]_vars

----------------------------------------------------------------------------
(* A caller that configures the builder: it may set the placeholder format *)
(* and select a query target several times, in any order, before it        *)
(* applies one filter list, and it may ask for the format at any time.     *)

StyleFilterLists ==
    {<<Comparison("firstname", OpEq, GoString("John")),
       Comparison("age", OpLte, GoInt(25))>>}
StyleApplyArgs == {<<User, NilOptions>>}

\* qb.SetPlaceholderFormat(f)
CallSetPlaceholderFormat(f) ==
    /\ Len(history) <= MaxCalls
    /\ qb' = SetPlaceholderFormat(qb, f)
    /\ history' = Append(history, FormatSet(f))
    /\ out' = [out EXCEPT !.get = NotCalled, !.sql = NotCalled]
    /\ UNCHANGED <<doc, filters, model, options, threads>>

\* format := qb.GetPlaceholderFormat()
CallGetPlaceholderFormat ==
    /\ ~out.get.called
    /\ out' = [out EXCEPT !.get = Returned(GetPlaceholderFormat(qb))]
    /\ UNCHANGED <<doc, filters, qb, model, options, history, threads>>

\* qb.WithSelect(t) / WithUpdate / WithDelete / WithInsert, any number of
\* times before Apply
SelectTarget(kind, t) ==
    /\ Len(history) <= MaxCalls
    /\ ~out.apply.called
    /\ qb' = CASE kind = selectQuery -> WithSelect(qb, t)
               [] kind = updateQuery -> WithUpdate(qb, t)
               [] kind = deleteQuery -> WithDelete(qb, t)
               [] kind = insertQuery -> WithInsert(qb, t)
    /\ history' = Append(history, Selected(kind))
    /\ out' = [out EXCEPT !.get = NotCalled, !.sql = NotCalled]
    /\ UNCHANGED <<doc, filters, model, options, threads>>

NextStyle ==
    \/ \E f \in PlaceholderFormats : CallSetPlaceholderFormat(f)
    \/ CallGetPlaceholderFormat
    \/ \E kind \in {selectQuery, updateQuery, deleteQuery, insertQuery}, t \in Tables :
          SelectTarget(kind, t)
    \/ \E fs \in StyleFilterLists : UseFilters(fs)
    \/ \E a \in StyleApplyArgs : CallApply(a[1], a[2])
    \/ CallToSql

SpecStyle == Init /\ [][NextStyle]_vars

----------------------------------------------------------------------------
(* A caller that keeps one select builder and narrows it step by step: it  *)
(* calls Apply several times, some of the calls failing, and may set the   *)
(* placeholder format and select a target, the same or another, at any     *)
(* time.                                                                   *)

RepeatArgs ==
    {[fs |-> <<Comparison("firstname", OpEq, GoString("John"))>>, opts |-> NilOptions, mdl |-> User],
     [fs |-> <<Comparison("age", OpLte, GoInt(25)), Comparison("email", OpNe, GoString("John"))>>,
      opts |-> QueryOptions(SortOf("age", SortDesc), GoInt(10), NoInt), mdl |-> User],
     \* an operator buildCondition does not know, after one it knows
     [fs |-> <<Comparison("lastname", OpEq, GoString("John")), Comparison("age", "$regex", GoInt(25))>>,
      opts |-> QueryOptions(SortOf("age", SortDesc), GoInt(10), NoInt), mdl |-> User],
     \* a sort key that is no public name
     [fs |-> <<Comparison("lastname", OpEq, GoString("John"))>>,
      opts |-> QueryOptions(SortOf("password", SortDesc), NoInt, NoInt), mdl |-> User],
     \* a filter field that is no public name, after one that is
     [fs |-> <<Comparison("lastname", OpEq, GoString("John")), Comparison("token", OpEq, GoInt(25))>>,
      opts |-> NilOptions, mdl |-> User],
     \* a model that is no struct
     [fs |-> <<Comparison("lastname", OpEq, GoString("John"))>>, opts |-> NilOptions, mdl |-> NotAStruct]}

\* qb.WithSelect(t) / WithUpdate / WithDelete / WithInsert, at any time
Reselect(kind, t) ==
    /\ Len(history) <= MaxCalls
    /\ qb' = CASE kind = selectQuery -> WithSelect(qb, t)
               [] kind = updateQuery -> WithUpdate(qb, t)
               [] kind = deleteQuery -> WithDelete(qb, t)
               [] kind = insertQuery -> WithInsert(qb, t)
    /\ history' = Append(history, Selected(kind))
    /\ out' = [out EXCEPT !.sql = NotCalled]
    /\ UNCHANGED <<doc, filters, model, options, threads>>

\* qb.Apply(a.fs, a.opts, a.mdl), any number of times
ApplyMore(a) ==
    /\ Len(history) <= MaxCalls
    /\ \E r \in Apply(qb, a.fs, a.opts, a.mdl) :
          /\ qb' = r.qb
          /\ out' = [out EXCEPT !.apply = Returned([err |-> r.err, ret |-> r.ret]),
                                !.sql = NotCalled]
          /\ history' = Append(history, Applied(a.fs, a.opts, a.mdl, r.err))
    /\ doc' = GoLiteral
    /\ filters' = a.fs
    /\ model' = a.mdl
    /\ options' = a.opts
    /\ UNCHANGED threads

NextRepeat ==
    \/ \E kind \in {selectQuery, updateQuery, deleteQuery, insertQuery}, t \in Tables :
          Reselect(kind, t)
    \/ \E f \in PlaceholderFormats : CallSetPlaceholderFormat(f)
    \/ \E a \in RepeatArgs : ApplyMore(a)
    \/ CallToSql

SpecRepeat == Init /\ [][NextRepeat]_vars

----------------------------------------------------------------------------
(* What the properties below are stated with.                              *)

\* ToSql was called after an Apply that returned no error
SqlReturned == out.apply.called /\ out.apply.r.err = NoErr /\ out.sql.called
\* ... on a builder set up with WithSelect, and ToSql returned no error
SelectRendered ==
    /\ SqlReturned
    /\ qb.queryType = selectQuery /\ qb.selectBuilder.set
    /\ out.sql.r.err = NoErr

\* The placeholder token of index k in the style of the builder.
Marker(f, k) ==
    CASE f = Question -> "?"
      [] f = Dollar   -> "$" \o ToString(k)
      [] f = AtP      -> "@p" \o ToString(k)

\* An element {field: scalar} or {field: {op: scalar}} of a `$or` array.
\* (A nil map, as in Decode of the empty object, has no keys.)
IsComparisonElem(e) ==
    /\ e.k = "obj" /\ Len(e.p) = 1
    /\ e.p[1][1] \notin {OpOr, OpAnd}
    /\ \/ e.p[1][2].k \in {"str", "num"}
       \/ /\ e.p[1][2].k = "obj" /\ Len(e.p[1][2].p) = 1
          /\ e.p[1][2].p[1][2].k \in {"str", "num"}

\* The predicate of a comparison element as the SQL text words it: 
\* <<column, operator, "?">>.
PredOf(e) ==
    LET f == CHOOSE f \in {fs[1] : fs \in parseFilters(Decode(e).m)} : TRUE
        tags == JsonToDB(getJSONTags(model).tags, getDBTags(model).tags)
    IN  LeafToSql(buildCondition(f, tags).cond).sql

RECURSIVE OrPairs(_)
\* The pairs <<A, B>> of neighbouring comparison elements of every `$or`
\* array of a document, at any depth.
OrPairs(j) ==
    IF j.k # "obj" THEN {}
    ELSE UNION {
           LET key == j.p[i][1]
               val == j.p[i][2]
           IN  IF key \in {OpOr, OpAnd} /\ val.k = "arr"
               THEN (IF key = OpOr
                     THEN {<<val.a[n], val.a[n + 1]>> : n \in
                             {n \in 1..(Len(val.a) - 1) :
                                 IsComparisonElem(val.a[n]) /\ IsComparisonElem(val.a[n + 1])}}
                     ELSE {})
                    \cup UNION {OrPairs(val.a[n]) : n \in 1..Len(val.a)}
               ELSE {}
           : i \in 1..Len(j.p)}

\* A's predicate, the word, B's predicate, numbered from k on, occur in sql.
JoinedBy(sql, pr, word, k) ==
    LET text == PredOf(pr[1]) \o <<word>> \o PredOf(pr[2])
    IN  Contains(sql, [i \in 1..Len(text) |->
                          IF text[i] # "?" THEN text[i]
                          ELSE Marker(qb.selectBuilder.fmt,
                                      k + Cardinality({n \in 1..(i - 1) : text[n] = "?"}))])

----------------------------------------------------------------------------
(* C1: for a filter JSON holding `$or: [A, B]` at any depth, the SQL of    *)
(* ParseFilter, WithSelect, Apply, ToSql joins A's predicate and B's       *)
(* predicate with OR and never with AND.                                   *)
C1_OrJoinsWithOr ==
    (SelectRendered /\ doc.k = "obj") =>
        \A pr \in OrPairs(doc) :
            /\ \E k \in 1..Len(out.sql.r.sql) : JoinedBy(out.sql.r.sql, pr, "OR", k)
            /\ ~\E k \in 1..Len(out.sql.r.sql) : JoinedBy(out.sql.r.sql, pr, "AND", k)


----------------------------------------------------------------------------
\* The public names of a model: the json names of its fields, a field
\* tagged "-" or without a json tag having none.
PublicNames(mdl) ==
    IF mdl.kind \notin {"struct", "ptr"} THEN {}
    ELSE {mdl.fields[i].json[1] :
             i \in {i \in 1..Len(mdl.fields) :
                       mdl.fields[i].json # <<>> /\ mdl.fields[i].json[1] # "-"}}

RECURSIVE ReferencedFields(_)
\* The fields a filter list refers to: the Field of every filter that has
\* no nested filters, at any depth.
ReferencedFields(fs) ==
    UNION {IF fs[i].Filters = <<>> THEN {fs[i].Field} ELSE ReferencedFields(fs[i].Filters) :
              i \in 1..Len(fs)}

SortKeys(opts) == IF opts.nil THEN {} ELSE DOMAIN opts.Sort

\* The builder holds nothing of an Apply call.
NothingApplied(b) ==
    b.selectBuilder.set =>
        /\ b.selectBuilder.where = <<>> /\ b.selectBuilder.orderBy = <<>>
        /\ b.selectBuilder.limit = <<>> /\ b.selectBuilder.offset = <<>>

----------------------------------------------------------------------------
IsGroup(f) == f.Filters # <<>> \/ (f.Field = "" /\ f.Operator \in {OpAnd, OpOr})

RECURSIVE Leaves(_)
\* The Comparison leaves of a filter list, left to right and depth first.
Leaves(fs) ==
    Flatten([i \in 1..Len(fs) |->
                IF IsGroup(fs[i]) THEN Leaves(fs[i].Filters) ELSE <<fs[i]>>])

\* The column a public name is stored in: its db tag, or the name itself.
StorageName(mdl, name) ==
    LET at == {i \in 1..Len(mdl.fields) :
                  /\ mdl.fields[i].json # <<>> /\ mdl.fields[i].json[1] = name
                  /\ mdl.fields[i].db \notin {"", "-"}}
    IN  IF at = {} THEN name ELSE mdl.fields[CHOOSE i \in at : TRUE].db

\* The SQL word of an ordering or equality operator.
OpWord(op) ==
    CASE op = OpEq -> "=" [] op = OpNe -> "<>" [] op = OpLt -> "<"
      [] op = OpLte -> "<=" [] op = OpGt -> ">" [] op = OpGte -> ">="

IsScalar(v) == v.t \in {"string", "int", "float64", "bool"}

\* A leaf that binds exactly one argument: one of the six comparison
\* operators on a public field with a scalar value.
IsPlainLeaf(f, mdl) ==
    /\ f.Operator \in {OpEq, OpNe, OpLt, OpLte, OpGt, OpGte}
    /\ f.Field \in PublicNames(mdl)
    /\ IsScalar(f.Value)

\* The K-th leaf is written with the K-th placeholder and bound to the K-th
\* argument, and there are no other arguments.
LeavesInOrder(L, r, mdl, f) ==
    /\ r.err = NoErr
    /\ Len(r.args) = Len(L)
    /\ \A k \in 1..Len(L) :
          /\ r.args[k] = L[k].Value
          /\ Contains(r.sql, <<StorageName(mdl, L[k].Field), OpWord(L[k].Operator), Marker(f, k)>>)

(* C3: for every filter list, nested OpOr/OpAnd groups included, Apply     *)
(* succeeds and the Nth placeholder of the SQL is bound to the Nth         *)
(* Comparison leaf in left-to-right depth-first order, one for one.        *)
C3_PlaceholdersFollowLeaves ==
    (/\ out.apply.called
     /\ qb.selectBuilder.set
     /\ IsStruct(model)
     /\ \A k \in 1..Len(Leaves(filters)) : IsPlainLeaf(Leaves(filters)[k], model)
     /\ SortKeys(options) \subseteq PublicNames(model)) =>
        /\ out.apply.r.err = NoErr
        /\ out.sql.called =>
              LeavesInOrder(Leaves(filters), out.sql.r, model, qb.selectBuilder.fmt)

\* The same, for the lists without a group.
C3_FlatListsInOrder ==
    (\A i \in 1..Len(filters) : ~IsGroup(filters[i])) => C3_PlaceholdersFollowLeaves


----------------------------------------------------------------------------
\* A JSON object of two or more distinct field keys, each with a scalar or
\* a one-operator object {op: scalar} as its value.
IsFieldKeysDoc(j) ==
    /\ j.k = "obj" /\ Len(j.p) >= 2
    /\ \A i \in 1..Len(j.p) :
          /\ j.p[i][1] \notin {OpOr, OpAnd}
          /\ \A i2 \in 1..Len(j.p) : j.p[i2][1] = j.p[i][1] => i2 = i
          /\ \/ j.p[i][2].k \in {"str", "num"}
             \/ /\ j.p[i][2].k = "obj" /\ Len(j.p[i][2].p) = 1
                /\ j.p[i][2].p[1][2].k \in {"str", "num"}

\* The comparisons of such a document, in the order its keys are written.
TextualLeaves(j) ==
    [i \in 1..Len(j.p) |->
        IF j.p[i][2].k = "obj"
        THEN Comparison(j.p[i][1], j.p[i][2].p[1][1], Decode(j.p[i][2].p[1][2]))
        ELSE Comparison(j.p[i][1], OpEq, Decode(j.p[i][2]))]

\* WHERE ( p1 AND p2 ... ), the predicates of L in order.
WhereOf(L, mdl, f) ==
    <<"WHERE", "(">>
    \o Flatten([k \in 1..Len(L) |->
                   (IF k > 1 THEN <<"AND">> ELSE <<>>)
                   \o <<StorageName(mdl, L[k].Field), OpWord(L[k].Operator), Marker(f, k)>>])
    \o <<")">>

(* C4: for a filter JSON object with several top-level field keys,         *)
(* ParseFilter and Apply emit the predicates and their arguments in the    *)
(* textual order of the keys, joined as one top-level AND, on every run.   *)
C4_KeysInTextualOrder ==
    (out.parse.called /\ IsFieldKeysDoc(doc)) =>
        /\ out.parse.r.err = NoErr
        /\ filters = TextualLeaves(doc)
        /\ (/\ SelectRendered
            /\ \A k \in 1..Len(filters) : IsPlainLeaf(filters[k], model)) =>
               /\ Contains(out.sql.r.sql, WhereOf(TextualLeaves(doc), model, qb.selectBuilder.fmt))
               /\ out.sql.r.args = [k \in 1..Len(doc.p) |-> TextualLeaves(doc)[k].Value]


----------------------------------------------------------------------------
RECURSIVE IsGroupDoc(_)
\* A JSON object whose `$or`/`$and` keys hold arrays of one-key objects of
\* the same kind, and whose field keys hold a scalar or {op: scalar}.
IsGroupDoc(j) ==
    /\ j.k = "obj"
    /\ \A i \in 1..Len(j.p) :
          IF j.p[i][1] \in {OpOr, OpAnd}
          THEN /\ j.p[i][2].k = "arr"
               /\ \A n \in 1..Len(j.p[i][2].a) :
                     /\ j.p[i][2].a[n].k = "obj"
                     /\ Len(j.p[i][2].a[n].p) = 1
                     /\ IsGroupDoc(j.p[i][2].a[n])
          ELSE \/ j.p[i][2].k \in {"str", "num"}
               \/ /\ j.p[i][2].k = "obj" /\ Len(j.p[i][2].p) = 1
                  /\ j.p[i][2].p[1][2].k \in {"str", "num"}

RECURSIVE GroupNodes(_)
\* The nodes such a document stands for, in the order its keys are written:
\* a Group per `$or`/`$and` key, with the nodes of the array elements as its
\* children, and a Comparison per field key.
GroupNodes(j) ==
    [i \in 1..Len(j.p) |->
        IF j.p[i][1] \in {OpOr, OpAnd}
        THEN Filter("", j.p[i][1], GoNil,
                    Flatten([n \in 1..Len(j.p[i][2].a) |-> GroupNodes(j.p[i][2].a[n])]))
        ELSE IF j.p[i][2].k = "obj"
        THEN Comparison(j.p[i][1], j.p[i][2].p[1][1], Decode(j.p[i][2].p[1][2]))
        ELSE Comparison(j.p[i][1], OpEq, Decode(j.p[i][2]))]

HasGroupKey(j) == \E i \in 1..Len(j.p) : j.p[i][1] \in {OpOr, OpAnd}

(* C5: ParseFilter turns each `$or` key into a Group node with operator or *)
(* and each `$and` key into a Group node with operator and, whose children *)
(* are the parsed array elements in order; a Group is never flattened into *)
(* its parent's list, at any depth.  (The top-level keys may come in any   *)
(* order.)                                                                 *)
C5_GroupsKeptAsNodes ==
    (out.parse.called /\ IsGroupDoc(doc) /\ HasGroupKey(doc)) =>
        /\ out.parse.r.err = NoErr
        /\ \E p \in Perms(1..Len(doc.p)) :
              out.parse.r.filters = [k \in 1..Len(doc.p) |-> GroupNodes(doc)[p[k]]]


----------------------------------------------------------------------------
\* The options add nothing to the statement.
NoOptions(opts) ==
    opts.nil \/ (opts.Sort = <<>> /\ opts.Limit = GoNil /\ opts.Offset = GoNil)

(* C6: parsing `{}` yields zero filters, and compiling zero filters yields *)
(* a query with no WHERE clause and no arguments: the SQL is exactly       *)
(* SELECT * FROM <table> (when no sort, limit or offset is asked for), and *)
(* the search query is a bool query with no must clause.                   *)
C6_EmptyFilterNoWhere ==
    /\ (out.parse.called /\ doc = JObj(<<>>)) =>
          out.parse.r = [err |-> NoErr, filters |-> <<>>]
    /\ (SelectRendered /\ filters = <<>>) =>
          /\ ~Contains(out.sql.r.sql, <<"WHERE">>)
          /\ out.sql.r.args = <<>>
          /\ NoOptions(options) =>
                out.sql.r.sql = <<"SELECT", "*", "FROM", qb.selectBuilder.table>>
    /\ (out.es.called /\ filters = <<>>) =>
          /\ out.es.r.err = NoErr
          /\ out.es.r.query = NewBoolQuery
          /\ Source(out.es.r.query) = JObj(<< <<"bool", JObj(<<>>)>> >>)

\* `{}` was parsed, applied to a select statement and rendered.
C6_Witness ==
    /\ doc = JObj(<<>>) /\ out.parse.called /\ filters = <<>>
    /\ SelectRendered /\ NoOptions(options)
    /\ out.sql.r.sql = <<"SELECT", "*", "FROM", "players">>


----------------------------------------------------------------------------
\* The body of a serialised bool query has the member <<key, value>>.
HasMember(j, key, value) ==
    /\ j.k = "obj" /\ Len(j.p) = 1 /\ j.p[1][1] = "bool"
    /\ \E i \in 1..Len(j.p[1][2].p) : j.p[1][2].p[i] = <<key, value>>

RECURSIVE GroupLowered(_, _)
\* q is the boolean node of the group f: the children of an `and` group are
\* its must clauses, those of an `or` group its should clauses with
\* minimum-should-match 1, child for child and at every depth.  (Nothing is
\* asked of a Comparison here.)
GroupLowered(f, q) ==
    CASE f.Operator = OpOr ->
           /\ q.q = "bool" /\ q.must = <<>> /\ q.mustNot = <<>>
           /\ q.minimumShouldMatch = "1"
           /\ HasMember(Source(q), "minimum_should_match", JStr("1"))
           /\ Len(q.should) = Len(f.Filters)
           /\ \A i \in 1..Len(f.Filters) : GroupLowered(f.Filters[i], q.should[i])
      [] f.Operator = OpAnd ->
           /\ q.q = "bool" /\ q.should = <<>> /\ q.mustNot = <<>>
           /\ Len(q.must) = Len(f.Filters)
           /\ \A i \in 1..Len(f.Filters) : GroupLowered(f.Filters[i], q.must[i])
      [] OTHER -> TRUE

----------------------------------------------------------------------------
\* { key: value }
Obj1(key, value) == JObj(<< <<key, value>> >>)

(* C8: ElasticBuilder.Apply given one Filter with operator OpAnd (OpOr)    *)
(* that carries a field f and a value v and no nested filters returns, with*)
(* no error, {"bool":{"must":{"bool":{"must":{"term":{f:v}}}}}} (with      *)
(* "should" for OpOr).                                                     *)
C8_FieldValueGroupWrapsTerm ==
    (/\ out.es.called
     /\ Len(filters) = 1 /\ filters[1].Operator \in {OpAnd, OpOr}
     /\ filters[1].Field # "" /\ filters[1].Filters = <<>>
     /\ IsScalar(filters[1].Value)) =>
        /\ out.es.r.err = NoErr
        /\ Source(out.es.r.query) =
              Obj1("bool", Obj1("must", Obj1("bool",
                  Obj1(IF filters[1].Operator = OpAnd THEN "must" ELSE "should",
                       Obj1("term", Obj1(filters[1].Field, Encode(filters[1].Value)))))))

----------------------------------------------------------------------------
\* q is the query the Comparison f stands for.
ComparisonLowered(f, q) ==
    LET term(x) == x.q = "term" /\ x.name = f.Field /\ x.value = f.Value
        terms(x) == x.q = "terms" /\ x.name = f.Field /\ GoSlice(x.values) = f.Value
        not(x) == /\ x.q = "bool" /\ x.must = <<>> /\ x.should = <<>>
                  /\ x.minimumShouldMatch = "" /\ Len(x.mustNot) = 1
    IN  CASE f.Operator = OpEq  -> term(q)
          [] f.Operator = OpNe  -> not(q) /\ term(q.mustNot[1])
          [] f.Operator \in {OpLt, OpLte} ->
               /\ q.q = "range" /\ q.name = f.Field
               /\ q.to = f.Value /\ q.from = GoNil
               /\ q.includeUpper = (f.Operator = OpLte)
          [] f.Operator \in {OpGt, OpGte} ->
               /\ q.q = "range" /\ q.name = f.Field
               /\ q.from = f.Value /\ q.to = GoNil
               /\ q.includeLower = (f.Operator = OpGte)
          [] f.Operator = OpIn  -> terms(q)
          [] f.Operator = OpNin -> not(q) /\ terms(q.mustNot[1])
          [] OTHER -> TRUE

(* C9: ElasticBuilder.Apply wraps the top-level filters in one bool must,  *)
(* each filter lowered on its own and kept in list order; eq lowers to a   *)
(* term query, ne to bool must_not(term), lt/lte/gt/gte to a range query   *)
(* whose bound on the operator's side is exclusive for lt/gt and inclusive *)
(* for lte/gte, in to a terms query over the value array, nin to bool      *)
(* must_not(terms).                                                        *)
C9_ComparisonsLowerUnderMust ==
    (out.es.called /\ out.es.r.err = NoErr) =>
        /\ out.es.r.query.q = "bool"
        /\ out.es.r.query.mustNot = <<>> /\ out.es.r.query.should = <<>>
        /\ out.es.r.query.minimumShouldMatch = ""
        /\ Len(out.es.r.query.must) = Len(filters)
        /\ \A i \in 1..Len(filters) :
              /\ ComparisonLowered(filters[i], out.es.r.query.must[i])
              /\ out.es.r.query.must[i] = ElasticApply(<<filters[i]>>).query.must[1]

\* Two comparisons, an eq and a lte, were lowered in list order.
C9_Witness ==
    /\ out.es.called /\ out.es.r.err = NoErr
    /\ Len(filters) = 2
    /\ filters[1].Operator = OpEq /\ filters[2].Operator = OpLte
    /\ out.es.r.query.must[1].q = "term"
    /\ out.es.r.query.must[2].q = "range" /\ out.es.r.query.must[2].includeUpper


----------------------------------------------------------------------------
\* The operators the SQL lowering knows.
SqlOperators == {OpEq, OpNe, OpLt, OpLte, OpGt, OpGte, OpIn, OpNin, OpLike}

\* The value suits the operator: an array for in/nin, a string for like, a
\* scalar for the six comparisons.
ValueSuits(f) ==
    CASE f.Operator \in {OpIn, OpNin} -> f.Value.t = "slice"
      [] f.Operator = OpLike -> f.Value.t = "string"
      [] f.Operator \in SqlOperators -> IsScalar(f.Value)
      [] OTHER -> TRUE

\* The predicate of a Comparison on its column, with "?" for each bound
\* argument, and the arguments it binds.  Membership in an empty array is
\* written as the constant (1=0), its negation as (1=1).
SqlPredicate(f, mdl) ==
    LET col == StorageName(mdl, f.Field)
        marks(n) == [i \in 1..(2 * n - 1) |-> IF i % 2 = 1 THEN "?" ELSE ","]
    IN  CASE f.Operator \in {OpEq, OpNe, OpLt, OpLte, OpGt, OpGte} ->
               [sql |-> <<col, OpWord(f.Operator), "?">>, args |-> <<f.Value>>]
          [] f.Operator \in {OpIn, OpNin} /\ f.Value.a = <<>> ->
               [sql |-> <<IF f.Operator = OpIn THEN "(1=0)" ELSE "(1=1)">>, args |-> <<>>]
          [] f.Operator = OpIn ->
               [sql |-> <<col, "IN", "(">> \o marks(Len(f.Value.a)) \o <<")">>,
                args |-> f.Value.a]
          [] f.Operator = OpNin ->
               [sql |-> <<col, "NOT", "IN", "(">> \o marks(Len(f.Value.a)) \o <<")">>,
                args |-> f.Value.a]
          [] f.Operator = OpLike ->
               [sql |-> <<col, "ILIKE", "?">>,
                args |-> <<GoString("%" \o f.Value.s \o "%")>>]

\* The "?" of a text written in the placeholder style f.
Numbered(text, f) ==
    [i \in 1..Len(text) |->
        IF text[i] = "?"
        THEN Marker(f, 1 + Cardinality({n \in 1..(i - 1) : text[n] = "?"}))
        ELSE text[i]]

\* WHERE ( p1 AND p2 ... ) over the predicates of the filters fs.
SqlWhere(fs, mdl, f) ==
    Numbered(<<"WHERE", "(">>
             \o Flatten([k \in 1..Len(fs) |->
                            (IF k > 1 THEN <<"AND">> ELSE <<>>) \o SqlPredicate(fs[k], mdl).sql])
             \o <<")">>, f)

----------------------------------------------------------------------------
\* The text with every placeholder token of the style f written "?".
Skeleton(sql, f) ==
    [i \in 1..Len(sql) |->
        IF \E k \in 1..Len(sql) : sql[i] = Marker(f, k) THEN "?" ELSE sql[i]]

\* What the filters, options and model of this state compile to on a fresh
\* select builder of style f: the possible [err, sql, args].
CompiledUnder(f) ==
    LET b == WithSelect(NewSqlBuilderWithPlaceholderFormat(f), qb.selectBuilder.table)
    IN  {ToSql(a.qb) : a \in {a \in Apply(b, filters, options, model) : a.err = NoErr}}

(* C11: compiling the same filter list under Dollar, Question and AtP      *)
(* yields the same argument list and the same predicate structure; the SQL *)
(* texts differ only in the placeholder tokens ($N, ?, @pN).               *)
C11_StylesDifferOnlyInTokens ==
    (SqlReturned /\ qb.queryType = selectQuery /\ qb.selectBuilder.set) =>
        \A f \in PlaceholderFormats :
            /\ CompiledUnder(f) # {}
            /\ \E r \in CompiledUnder(f) :
                  /\ r.err = out.sql.r.err
                  /\ r.args = out.sql.r.args
                  /\ Skeleton(r.sql, f) = Skeleton(out.sql.r.sql, qb.selectBuilder.fmt)
                  /\ r.sql = Numbered(Skeleton(out.sql.r.sql, qb.selectBuilder.fmt), f)

\* Two predicates were rendered in the AtP style.
C11_Witness ==
    /\ SelectRendered
    /\ qb.selectBuilder.fmt = AtP
    /\ Len(filters) = 2 /\ Len(out.sql.r.args) = 2
    /\ Contains(out.sql.r.sql, <<"@p1", "AND">>)
    /\ Contains(out.sql.r.sql, <<"@p2", ")">>)


----------------------------------------------------------------------------
\* The style of the builder after the calls h: that of the last
\* SetPlaceholderFormat call, or of the constructor.
CurrentStyle(h) ==
    LET at == {i \in 1..Len(h) : h[i].op \in {"New", "SetPlaceholderFormat"}}
    IN  h[CHOOSE i \in at : \A j \in at : j <= i].f

\* The last selection of a select target among the calls h (0: none).
LastSelect(h) ==
    LET at == {i \in 1..Len(h) : h[i].op = "With" /\ h[i].kind = selectQuery}
    IN  IF at = {} THEN 0 ELSE CHOOSE i \in at : \A j \in at : j <= i

\* The style in effect when the select target was last selected.
SelectedStyle(h) == CurrentStyle(SubSeq(h, 1, LastSelect(h)))

\* The text has one placeholder token of style f for each argument.
WrittenIn(r, f) ==
    /\ Cardinality({i \in 1..Len(r.sql) : \E k \in 1..Len(r.sql) : r.sql[i] = Marker(f, k)})
          = Len(r.args)
    /\ r.sql = Numbered(Skeleton(r.sql, f), f)

\* A select statement with arguments was rendered.
RenderedWithArgs ==
    /\ SelectRendered /\ LastSelect(history) > 0
    /\ Len(out.sql.r.args) > 0

(* C12: the style rendered by ToSql is the one in effect when the select   *)
(* target was selected (the constructor's, or that of the last             *)
(* SetPlaceholderFormat call before WithSelect), and GetPlaceholderFormat  *)
(* returns that same style.                                                *)
C12_GetReturnsRenderedStyle ==
    /\ RenderedWithArgs => WrittenIn(out.sql.r, SelectedStyle(history))
    /\ (out.get.called /\ LastSelect(history) > 0) =>
          out.get.r = SelectedStyle(history)

\* What holds of the code: the rendered style is the one in effect at the
\* selection, and GetPlaceholderFormat returns the style of the last
\* SetPlaceholderFormat call (or the constructor's), which is the rendered
\* one as long as no SetPlaceholderFormat call follows the selection.
RenderedStyleIsSelectedStyle ==
    /\ RenderedWithArgs => WrittenIn(out.sql.r, SelectedStyle(history))
    /\ out.get.called => out.get.r = CurrentStyle(history)
    /\ (/\ out.get.called /\ LastSelect(history) > 0
        /\ \A i \in (LastSelect(history) + 1)..Len(history) :
              history[i].op # "SetPlaceholderFormat") =>
          out.get.r = SelectedStyle(history)


----------------------------------------------------------------------------
\* The first selection of a query target among the calls h (0: none).
FirstSelection(h) ==
    LET at == {i \in 1..Len(h) : h[i].op = "With"}
    IN  IF at = {} THEN 0 ELSE CHOOSE i \in at : \A j \in at : i <= j

\* The style in effect at the first selection.
FirstStyle(h) == CurrentStyle(SubSeq(h, 1, FirstSelection(h)))

(* C19: once WithSelect/WithUpdate/WithDelete/WithInsert has been called,  *)
(* no later call (SetPlaceholderFormat included) changes the style the     *)
(* builder reports or the style its statement is rendered with.            *)
C19_StyleImmutableAfterSelection ==
    FirstSelection(history) > 0 =>
        /\ GetPlaceholderFormat(qb) = FirstStyle(history)
        /\ out.get.called => out.get.r = FirstStyle(history)
        /\ RenderedWithArgs => WrittenIn(out.sql.r, FirstStyle(history))


----------------------------------------------------------------------------
\* The sort mapping {age: desc, name: asc}, its entries written in this
\* order.
AgeThenName == [x \in {"age", "name"} |-> IF x = "age" THEN SortDesc ELSE SortAsc]

\* The ORDER BY segment of a sort entry.
SortSegment(mdl, key, dir) ==
    <<StorageName(mdl, key), IF dir = SortDesc THEN "DESC" ELSE "ASC">>

(* C13: each sort entry of the options appends exactly one                 *)
(* `<storage field> ASC|DESC` segment to ORDER BY, and the segments appear *)
(* in the insertion order of the sort mapping: {age: desc, name: asc}      *)
(* always yields ORDER BY age DESC, name ASC.                              *)
C13_SortSegmentsInInsertionOrder ==
    (SelectRendered /\ ~options.nil) =>
        /\ Cardinality({i \in 1..Len(out.sql.r.sql) : out.sql.r.sql[i] \in {"ASC", "DESC"}})
              = Cardinality(DOMAIN options.Sort)
        /\ \A key \in DOMAIN options.Sort :
              Contains(out.sql.r.sql, SortSegment(model, key, options.Sort[key]))
        /\ options.Sort = AgeThenName =>
              Contains(out.sql.r.sql, <<"ORDER", "BY", "age", "DESC", ",", "name", "ASC">>)

\* The same without the order of the segments.
OneSegmentPerSortEntry ==
    (SelectRendered /\ ~options.nil) =>
        /\ Cardinality({i \in 1..Len(out.sql.r.sql) : out.sql.r.sql[i] \in {"ASC", "DESC"}})
              = Cardinality(DOMAIN options.Sort)
        /\ \A key \in DOMAIN options.Sort :
              Contains(out.sql.r.sql, SortSegment(model, key, options.Sort[key]))


----------------------------------------------------------------------------
\* Operator keys ParseFilter is to recognise, and a keyword outside them.
RecognisedKeywords == {OpEq, OpNe, OpLt, OpLte, OpGt, OpGte, OpIn, OpNin, OpLike}
UnknownKeywords == {"$regex"}

\* The <<field, keyword>> pairs of a document where the operator object of a
\* top-level field holds an unknown keyword.
UnknownOperatorsOf(j) ==
    IF j.k # "obj" THEN {}
    ELSE UNION {IF j.p[i][2].k # "obj" THEN {}
                ELSE {<<j.p[i][1], j.p[i][2].p[n][1]>> : n \in
                         {n \in 1..Len(j.p[i][2].p) : j.p[i][2].p[n][1] \in UnknownKeywords}}
                : i \in {i \in 1..Len(j.p) : j.p[i][1] \notin {OpOr, OpAnd}}}

(* C14: ParseFilter fails with an UnsupportedOperator error naming the     *)
(* field and the offending keyword whenever a field's operator object      *)
(* holds a key that is not a recognised comparison operator; no filter     *)
(* list is returned then.                                                  *)
C14_ParseRejectsUnknownOperator ==
    (out.parse.called /\ UnknownOperatorsOf(doc) # {}) =>
        /\ out.parse.r.err.e = "unsupported_operator"
        /\ <<out.parse.r.err.field, out.parse.r.err.op>> \in UnknownOperatorsOf(doc)
        /\ out.parse.r.filters = <<>>


----------------------------------------------------------------------------
RECURSIVE BadShape(_)
\* A filter object with a `$or`/`$and` key whose value is no array, or with
\* an element of that array that is no object, or is itself such an object.
BadShape(j) ==
    \E i \in 1..Len(j.p) :
        /\ j.p[i][1] \in {OpOr, OpAnd}
        /\ \/ j.p[i][2].k # "arr"
           \/ \E n \in 1..Len(j.p[i][2].a) :
                 \/ j.p[i][2].a[n].k # "obj"
                 \/ BadShape(j.p[i][2].a[n])

\* Text that is no JSON, JSON that is no object, or an object of bad shape.
IsMalformed(j) ==
    \/ j.k \in {"bad", "arr", "str", "num", "bool"}
    \/ j.k = "obj" /\ BadShape(j)

(* C15: ParseFilter fails with a MalformedInput error, returning no        *)
(* filters, whenever the input is not valid JSON for a filter object or    *)
(* violates the expected shape, in particular when the value of `$or` /    *)
(* `$and` is not an array or an element of that array is not a filter      *)
(* object; such input is never silently accepted or skipped.               *)
C15_ParseRejectsMalformedInput ==
    (out.parse.called /\ IsMalformed(doc)) =>
        /\ out.parse.r.err.e = "parse"
        /\ out.parse.r.filters = <<>>

\* The same for text that is no JSON object at all.
NonObjectRejected ==
    (out.parse.called /\ doc.k \in {"bad", "arr", "str", "num", "bool"}) =>
        /\ out.parse.r.err.e = "parse"
        /\ out.parse.r.filters = <<>>


----------------------------------------------------------------------------
(* C17: ElasticBuilder.Apply produces no query and fails with an           *)
(* unknown-field error when a filter references a field that is absent     *)
(* from the model's public field map (a field tagged json:"-" for one),    *)
(* as the SQL path does.                                                   *)
C17_ElasticRejectsUnknownField ==
    (/\ out.es.called /\ IsStruct(model)
     /\ \E i \in 1..Len(filters) :
           ~IsGroup(filters[i]) /\ filters[i].Field \notin PublicNames(model)) =>
        /\ out.es.r.err.e = "invalid_field"
        /\ out.es.r.query = NilQuery


----------------------------------------------------------------------------
\* The operators with a search-query equivalent.
ElasticOperators == {OpEq, OpNe, OpLt, OpLte, OpGt, OpGte, OpIn, OpNin, OpAnd, OpOr}

(* C18: ElasticBuilder.Apply returns an UnsupportedOperator error, and no  *)
(* query, for any filter whose operator has no search-query equivalent     *)
(* ($like, an unrecognised keyword); it never returns success with a       *)
(* missing or nil sub-query for such a filter.                             *)
C18_ElasticRejectsUnsupportedOperator ==
    (/\ out.es.called
     /\ \E i \in 1..Len(filters) : filters[i].Operator \notin ElasticOperators
     /\ \A i \in 1..Len(filters) :
           filters[i].Operator \in {OpIn, OpNin} => filters[i].Value.t = "slice") =>
        /\ out.es.r.err.e = "unsupported_operator"
        /\ out.es.r.query = NilQuery


----------------------------------------------------------------------------
\* A Group with zero children.
IsEmptyGroup(f) == f.Field = "" /\ f.Operator \in {OpAnd, OpOr} /\ f.Filters = <<>>

\* The filters without the empty groups among them.
WithoutEmptyGroups(fs) == SelectSeq(fs, LAMBDA f : ~IsEmptyGroup(f))

\* The list holds an empty group, and nothing else but plain comparisons on
\* public fields.
EmptyGroupAmongLeaves(fs, mdl) ==
    /\ \E i \in 1..Len(fs) : IsEmptyGroup(fs[i])
    /\ \A i \in 1..Len(fs) : IsEmptyGroup(fs[i]) \/ (~IsGroup(fs[i]) /\ IsPlainLeaf(fs[i], mdl))

(* C20: a Group with zero children compiles to a no-op in both compilers:  *)
(* it is omitted from the output (no predicate, no boolean clause, no      *)
(* argument) and never causes an error.                                    *)
C20_EmptyGroupIsNoOp ==
    /\ (/\ out.apply.called /\ qb.selectBuilder.set /\ IsStruct(model)
        /\ SortKeys(options) \subseteq PublicNames(model)
        /\ EmptyGroupAmongLeaves(filters, model)) =>
          /\ out.apply.r.err = NoErr
          /\ out.sql.called =>
                /\ LeavesInOrder(WithoutEmptyGroups(filters), out.sql.r, model, qb.selectBuilder.fmt)
                /\ WithoutEmptyGroups(filters) = <<>> => ~Contains(out.sql.r.sql, <<"WHERE">>)
    /\ (out.es.called /\ IsStruct(model) /\ EmptyGroupAmongLeaves(filters, model)) =>
          /\ out.es.r.err = NoErr
          /\ Len(out.es.r.query.must) = Len(WithoutEmptyGroups(filters))


\* =====================================================================
\* Apply called from several goroutines on one *SqlBuilder
\* =====================================================================
\* Apply takes no lock and assigns to qb.selectBuilder: each assignment
\* `qb.selectBuilder = qb.selectBuilder.X(...)` is a read of the field, a pure
\* computation on the value read, and a write of the field.  squirrel's
\* builders are immutable values, so the value a goroutine read is not changed
\* under it; what another goroutine can do between the read and the write is
\* assign the field.  Every value ever assigned has the same dynamic type, so a
\* read that overlaps a write yields the old or the new value.

\* The arguments of the concurrent calls.
ConcurrentArgs ==
    {[fs |-> <<Comparison("firstname", OpEq, GoString("John"))>>, opts |-> NilOptions, mdl |-> User],
     [fs |-> <<Comparison("age", OpLte, GoInt(25))>>,
      opts |-> QueryOptions(SortOf("age", SortDesc), GoInt(10), NoInt), mdl |-> User]}

NoSnapshot == <<>>

\* A goroutine inside Apply: what it was called with, where it is, the value
\* of qb.selectBuilder it read last, the assignments it has still to make, and
\* the error it returned.
Thread(a, pc, snap, todo, err) ==
    [args |-> a, pc |-> pc, snap |-> snap, todo |-> todo, err |-> err]

\* go qb.Apply(a.fs, a.opts, a.mdl) on a builder whose target is a select:
\* the tags are read and the fields validated, on the goroutine's own data.
GoApply(a) ==
    /\ qb.selectBuilder.set
    /\ Len(threads) < MaxThreads
    /\ \E u \in ApplyUpdates(a.fs, a.opts, a.mdl) :
          threads' = Append(threads,
              Thread(a, IF u.todo = <<>> THEN "done" ELSE "read", NoSnapshot, u.todo, u.err))
    /\ UNCHANGED <<doc, filters, qb, model, options, out, history>>

\* The read of qb.selectBuilder on the right of an assignment.
ThreadRead(t) ==
    /\ threads[t].pc = "read"
    /\ threads' = [threads EXCEPT ![t].pc = "write", ![t].snap = <<qb.selectBuilder>>]
    /\ UNCHANGED <<doc, filters, qb, model, options, out, history>>

\* The write of qb.selectBuilder on the left of that assignment.
ThreadWrite(t) ==
    /\ threads[t].pc = "write"
    /\ qb' = [qb EXCEPT !.selectBuilder = Updated(threads[t].snap[1], Head(threads[t].todo))]
    /\ threads' = [threads EXCEPT ![t].pc = IF Len(threads[t].todo) = 1 THEN "done" ELSE "read",
                                  ![t].snap = NoSnapshot,
                                  ![t].todo = Tail(@)]
    /\ out' = [out EXCEPT !.sql = NotCalled]
    /\ UNCHANGED <<doc, filters, model, options, history>>

NextConcurrent ==
    \/ \E t \in Tables : CallWith(selectQuery, t)
    \/ \E a \in ConcurrentArgs : GoApply(a)
    \/ \E t \in DOMAIN threads : ThreadRead(t)
    \/ \E t \in DOMAIN threads : ThreadWrite(t)
    \/ CallToSql

SpecConcurrent == Init /\ [][NextConcurrent]_vars

\* ---------------------------------------------------------------------
\* C16
\* ---------------------------------------------------------------------
\* The builders that calling Apply with each of args, one call after the
\* other, can leave behind.
RECURSIVE SerialApply(_, _)
SerialApply(b, args) ==
    IF args = <<>> THEN {b}
    ELSE UNION {SerialApply(r.qb, Tail(args)) :
                  r \in Apply(b, Head(args).fs, Head(args).opts, Head(args).mdl)}

\* The builder the goroutines were given: the target chosen, nothing applied.
SharedBuilder ==
    WithSelect(NewSqlBuilderWithPlaceholderFormat(qb.placeholderFormat), qb.selectBuilder.table)

\* The statements the calls made give when they run one after the other, in
\* any order.
SerialStatements ==
    {ToSql(b) : b \in UNION {SerialApply(SharedBuilder, [i \in 1..Len(p) |-> threads[p[i]].args]) :
                               p \in Perms(DOMAIN threads)}}

AllReturned == \A t \in DOMAIN threads : threads[t].pc = "done"

\* C16: when two goroutines have called Apply on the same SqlBuilder and both
\* have returned, the statement ToSql gives is the one some serial order of the
\* two calls gives: no Where condition, sort segment, limit or offset of either
\* call is lost.
C16_ConcurrentApplyIsSerial ==
    (Len(threads) >= 2 /\ AllReturned /\ out.sql.called) => out.sql.r \in SerialStatements


----------------------------------------------------------------------------
\* The public names among ns that the model stores under another name.
Renamed(mdl, ns) == {n \in ns \cap PublicNames(mdl) : StorageName(mdl, n) # n}

\* SQL's word for a sort direction.
DirWord(d) == IF d = SortDesc THEN "DESC" ELSE "ASC"

(* C21: in the SQL of a select statement every filter predicate and every  *)
(* ORDER BY segment names the storage (db) column of its public field, and *)
(* the public name itself when the field declares no storage name; a       *)
(* public name never stands where a declared storage name belongs.         *)
C21_StorageNamesInSql ==
    (/\ SelectRendered
     /\ IsStruct(model)
     /\ \A i \in 1..Len(filters) :
           /\ filters[i].Filters = <<>>
           /\ filters[i].Operator \in SqlOperators
           /\ ValueSuits(filters[i])) =>
        /\ \A i \in 1..Len(filters) :
              Contains(Skeleton(out.sql.r.sql, qb.selectBuilder.fmt),
                       SqlPredicate(filters[i], model).sql)
        /\ \A k \in SortKeys(options) :
              Contains(out.sql.r.sql, <<StorageName(model, k), DirWord(options.Sort[k])>>)
        /\ \A n \in Renamed(model, {filters[i].Field : i \in 1..Len(filters)} \cup SortKeys(options)) :
              ~Contains(out.sql.r.sql, <<n>>)

\* A filter on email, sorted by email: both written email_address.
C21_Witness ==
    /\ SelectRendered
    /\ Len(filters) = 1 /\ filters[1].Field = "email" /\ filters[1].Operator = OpGt
    /\ SortKeys(options) = {"email"}
    /\ Contains(out.sql.r.sql, <<"email_address", ">", Marker(qb.selectBuilder.fmt, 1)>>)
    /\ Contains(out.sql.r.sql, <<"ORDER", "BY", "email_address", "ASC">>)


----------------------------------------------------------------------------
\* The statement has the clause `word n` for a value given, and no clause
\* of that word for a value not given; a value given is not negative.
ClauseAsGiven(sql, word, v) ==
    IF v.t = "nil" THEN ~Contains(sql, <<word>>)
    ELSE v.n >= 0 /\ Contains(sql, <<word, ToString(v.n)>>)

(* C24: when the options carry a limit (offset), the statement has LIMIT   *)
(* (OFFSET) with exactly that value, a non-negative integer; without one   *)
(* it has no LIMIT (OFFSET).  A negative value is never rendered as        *)
(* another number, such as the value wrapped modulo 2^64.                  *)
C24_LimitOffsetAsGiven ==
    SelectRendered =>
        IF options.nil
        THEN ~Contains(out.sql.r.sql, <<"LIMIT">>) /\ ~Contains(out.sql.r.sql, <<"OFFSET">>)
        ELSE /\ ClauseAsGiven(out.sql.r.sql, "LIMIT", options.Limit)
             /\ ClauseAsGiven(out.sql.r.sql, "OFFSET", options.Offset)

\* The same, for the values that are not negative: this holds.
LimitOffsetOfNaturals ==
    (/\ ~options.nil
     /\ options.Limit.t # "nil" => options.Limit.n >= 0
     /\ options.Offset.t # "nil" => options.Offset.n >= 0) => C24_LimitOffsetAsGiven


----------------------------------------------------------------------------
\* A JSON object none of whose keys is written as an operator (`$...`).
\* (The keys of the documents here that are no operators: "a".)
HasNoOperatorKeys(j) ==
    /\ j.k = "obj" /\ Len(j.p) > 0
    /\ \A i \in 1..Len(j.p) : j.p[i][1] \notin AllOperators

(* C22: a field key whose value is a JSON object without operator keys     *)
(* (as in {"meta":{"a":1}}) parses to one implicit eq Comparison on that   *)
(* field with the whole object as its value; the keys of the object are    *)
(* not turned into operators.                                              *)
C22_PlainObjectIsEqValue ==
    (/\ out.parse.called
     /\ doc.k = "obj" /\ Len(doc.p) = 1
     /\ doc.p[1][1] \notin {OpOr, OpAnd}
     /\ HasNoOperatorKeys(doc.p[1][2])) =>
        /\ out.parse.r.err = NoErr
        /\ out.parse.r.filters = <<Comparison(doc.p[1][1], OpEq, Decode(doc.p[1][2]))>>


----------------------------------------------------------------------------
\* The first Comparison of the list, in left-to-right depth-first order,
\* whose field is no public name of the model (0: there is none).
FirstOffender(fs, mdl) ==
    LET L == Leaves(fs)
        bad == {k \in 1..Len(L) : L[k].Field \notin PublicNames(mdl)}
    IN  IF bad = {} THEN 0 ELSE CHOOSE k \in bad : \A j \in bad : k <= j

(* C23: validation walks the filters in order and stops at the first       *)
(* offending field: the error names the first filter field, in depth-first *)
(* list order, that is no public name, and the sort keys are checked only  *)
(* after every filter field has passed.                                    *)
C23_FirstOffendingFieldNamed ==
    (out.apply.called /\ IsStruct(model)) =>
        IF FirstOffender(filters, model) # 0
        THEN out.apply.r.err =
                [e |-> "invalid_field",
                 field |-> Leaves(filters)[FirstOffender(filters, model)].Field]
        ELSE /\ out.apply.r.err.e # "invalid_field"
             /\ (SortKeys(options) \ PublicNames(model) # {}) =>
                    /\ out.apply.r.err.e = "invalid_sort_field"
                    /\ out.apply.r.err.field \in SortKeys(options) \ PublicNames(model)

\* The same, for the lists without a group: this holds.
FlatListsFirstOffender ==
    (\A i \in 1..Len(filters) : ~IsGroup(filters[i])) => C23_FirstOffendingFieldNamed


----------------------------------------------------------------------------
RECURSIVE WrittenComparisons(_)
\* The comparisons a decoded filter object states, at any depth: one per
\* operator key of a field's operator object, an eq for a field whose
\* value is no object, and those of every object in a `$or`/`$and` array.
WrittenComparisons(m) ==
    UNION {IF key \in {OpOr, OpAnd}
           THEN (IF m[key].t # "slice" THEN {}
                 ELSE UNION {IF m[key].a[n].t = "map" THEN WrittenComparisons(m[key].a[n].m) ELSE {} :
                                n \in 1..Len(m[key].a)})
           ELSE IF m[key].t = "map"
           THEN {Comparison(key, op, m[key].m[op]) : op \in DOMAIN m[key].m \cap AllOperators}
           ELSE {Comparison(key, OpEq, m[key])}
           : key \in DOMAIN m}

(* C25: ParseFilter never silently drops a condition: every field          *)
(* comparison written anywhere in the input JSON (a top-level field key    *)
(* next to a `$or` key and the comparisons inside a `$and` array included) *)
(* is among the returned filters.                                          *)
C25_NoConditionDropped ==
    (out.parse.called /\ doc.k = "obj" /\ out.parse.r.err = NoErr) =>
        \A c \in WrittenComparisons(Decode(doc).m) :
            \E k \in 1..Len(Leaves(out.parse.r.filters)) : Leaves(out.parse.r.filters)[k] = c

RECURSIVE OrAloneOrFieldsOnly(_)
\* A decoded filter object without a `$and` key and without a key next to
\* `$or`, at any depth.
OrAloneOrFieldsOnly(m) ==
    /\ OpAnd \notin DOMAIN m
    /\ OpOr \in DOMAIN m =>
          /\ DOMAIN m = {OpOr}
          /\ m[OpOr].t = "slice" =>
                \A n \in 1..Len(m[OpOr].a) :
                    m[OpOr].a[n].t = "map" => OrAloneOrFieldsOnly(m[OpOr].a[n].m)

\* For those documents nothing is dropped: this holds.
NothingDroppedOtherwise ==
    (doc.k = "obj" /\ OrAloneOrFieldsOnly(Decode(doc).m)) => C25_NoConditionDropped


----------------------------------------------------------------------------
\* The text has a WHERE clause with the predicates of the filters fs.
RestrictedBy(r, fs, mdl, f) ==
    /\ r.err = NoErr
    /\ Contains(r.sql, SqlWhere(fs, mdl, f))
    /\ r.args = Flatten([k \in 1..Len(fs) |-> SqlPredicate(fs[k], mdl).args])

\* The placeholder style of the statement ToSql renders.
TargetStyle(b) ==
    CASE b.queryType = selectQuery -> b.selectBuilder.fmt
      [] b.queryType = updateQuery -> b.updateBuilder.fmt
      [] b.queryType = deleteQuery -> b.deleteBuilder.fmt
      [] b.queryType = insertQuery -> b.insertBuilder.fmt

(* C26: after Apply returned success for a non-empty list of valid         *)
(* filters, the statement ToSql returns is restricted by those filters,    *)
(* whatever target the builder was set up with; a builder set up with      *)
(* WithDelete or WithUpdate never renders an unfiltered DELETE or UPDATE   *)
(* after a successful Apply.                                               *)
C26_AppliedFiltersRestrict ==
    (/\ SqlReturned /\ HasTarget(qb)
     /\ filters # <<>>
     /\ \A i \in 1..Len(filters) :
           /\ filters[i].Filters = <<>>
           /\ filters[i].Operator \in SqlOperators
           /\ ValueSuits(filters[i])
     /\ out.sql.r.err = NoErr) =>
        RestrictedBy(out.sql.r, filters, model, TargetStyle(qb))


----------------------------------------------------------------------------
\* The call ended by returning: it did not panic.
ReturnedNormally(o) == o.called => o.r.err.e # "panic"

(* C28: for every filter list ParseFilter can return, SqlBuilder.Apply and *)
(* ElasticBuilder.Apply end by returning a query or an error value; they   *)
(* never panic, a `$like` with a non-string value and a `$in`/`$nin` with  *)
(* a non-array value included.                                             *)
C28_ApplyNeverPanics ==
    (out.parse.called /\ out.parse.r.err = NoErr) =>
        /\ ReturnedNormally(out.apply)
        /\ ReturnedNormally(out.es)


----------------------------------------------------------------------------
\* The last call made on the builder was an Apply call that failed.
ApplyJustFailed(h) == h[Len(h)].op = "Apply" /\ h[Len(h)].err # NoErr

(* C27: if Apply returns an error (the model is no struct, a filter field  *)
(* or sort key is unknown, an operator is unsupported), the builder is     *)
(* unchanged: ToSql returns the same SQL and arguments after the call as   *)
(* before it, no part of the filters or options having been applied.       *)
C27_FailedApplyChangesNothing ==
    [][(Len(history') = Len(history) + 1 /\ ApplyJustFailed(history')) =>
          (qb' = qb /\ ToSql(qb') = ToSql(qb))]_vars

\* An Apply call failed on its second filter, on a statement that already
\* had a WHERE clause, and left it as it was.
C27_Witness ==
    /\ ApplyJustFailed(history)
    /\ history[Len(history)].err = [e |-> "unsupported_operator", op |-> "$regex"]
    /\ Len(history) >= 3 /\ history[Len(history) - 1].op = "Apply"
    /\ history[Len(history) - 1].err = NoErr
    /\ Len(qb.selectBuilder.where) = 1
    /\ out.sql.called /\ Len(out.sql.r.args) = 1


----------------------------------------------------------------------------
\* The Apply calls that succeeded since the select target was last
\* selected, in the order they were made.
AppliedSince(h) ==
    SelectSeq(SubSeq(h, LastSelect(h) + 1, Len(h)),
              LAMBDA e : e.op = "Apply" /\ e.err = NoErr)

\* ( p1 AND p2 ... ) over the predicates of one Apply call.
Conjunction(e) ==
    <<"(">>
    \o Flatten([k \in 1..Len(e.fs) |->
                   (IF k > 1 THEN <<"AND">> ELSE <<>>) \o SqlPredicate(e.fs[k], e.mdl).sql])
    \o <<")">>

\* WHERE c1 AND c2 ..., the conjunctions of the calls A in order.
CumulativeWhere(A, f) ==
    Numbered(<<"WHERE">>
             \o Flatten([k \in 1..Len(A) |->
                            (IF k > 1 THEN <<"AND">> ELSE <<>>) \o Conjunction(A[k])]), f)

(* C29: Apply is cumulative on a select builder: after successful Apply    *)
(* calls with the lists F1 then F2 and no With* call between them, ToSql   *)
(* renders a WHERE clause that requires F1 and F2, the arguments of F1     *)
(* before those of F2, no filter of the earlier call lost or replaced; a   *)
(* later WithSelect call discards everything applied before it.            *)
C29_ApplyIsCumulative ==
    (out.sql.called /\ qb.queryType = selectQuery /\ LastSelect(history) > 0) =>
        LET A == AppliedSince(history)
        IN  /\ out.sql.r.err = NoErr
            /\ IF A = <<>>
               THEN out.sql.r = Rendered(<<"SELECT", "*", "FROM", qb.selectBuilder.table>>, <<>>)
               ELSE /\ Contains(out.sql.r.sql, CumulativeWhere(A, qb.selectBuilder.fmt))
                    /\ out.sql.r.args =
                          Flatten([k \in 1..Len(A) |->
                                      Flatten([i \in 1..Len(A[k].fs) |->
                                                  SqlPredicate(A[k].fs[i], A[k].mdl).args])])

\* Two different lists were applied one after the other and rendered.
C29_Witness ==
    /\ out.sql.called /\ qb.queryType = selectQuery /\ LastSelect(history) > 0
    /\ Len(AppliedSince(history)) = 2
    /\ Len(AppliedSince(history)[1].fs) = 1 /\ Len(AppliedSince(history)[2].fs) = 2
    /\ Contains(out.sql.r.sql, <<")", "AND", "(", "age", "<=">>)
    /\ out.sql.r.args = <<GoString("John"), GoInt(25), GoString("John")>>

\* Something was applied, the select target selected again, and the
\* statement rendered: nothing of what was applied is left.
AppliedThenReselected ==
    /\ out.sql.called
    /\ LastSelect(history) = Len(history) /\ Len(history) >= 3
    /\ history[Len(history) - 1].op = "Apply" /\ history[Len(history) - 1].err = NoErr
    /\ history[Len(history) - 2].op = "With"


----------------------------------------------------------------------------
\* The target of the last With* call among the calls h; the select target
\* when there was none.
LastTarget(h) ==
    LET at == {i \in 1..Len(h) : h[i].op = "With"}
    IN  IF at = {} THEN selectQuery ELSE h[CHOOSE i \in at : \A j \in at : j <= i].kind

\* The kind of statement a result of ToSql is of, by its first word or, for
\* a statement squirrel refuses, by the statement its message names (4: of
\* no kind).
StatementKind(r) ==
    LET word == IF r.err = NoErr THEN r.sql[1]
                ELSE IF r.err.e = "squirrel" THEN r.err.what
                ELSE ""
    IN  CASE word \in {"SELECT", "select statements must have at least one result column"} -> selectQuery
          [] word \in {"update statements must have at least one Set clause"} -> updateQuery
          [] word \in {"DELETE", "delete statements must specify a From table"} -> deleteQuery
          [] word \in {"insert statements must specify a table",
                       "insert statements must have at least one set of values or select clause"}
               -> insertQuery
          [] OTHER -> 4

(* C30: after any sequence of NewSqlBuilder, With*, SetPlaceholderFormat   *)
(* and Apply calls the query type of the builder is one of select, update, *)
(* delete and insert, and ToSql renders the statement set up by the most   *)
(* recent With* call; ToSql's `invalid query type` error is unreachable,   *)
(* and a builder on which no With* was called is treated as a select       *)
(* builder.                                                                *)
C30_QueryTypeFollowsLastWith ==
    /\ qb.queryType \in {selectQuery, updateQuery, deleteQuery, insertQuery}
    /\ qb.queryType = LastTarget(history)
    /\ out.sql.called =>
          /\ out.sql.r.err.e # "invalid_query_type"
          /\ StatementKind(out.sql.r) = LastTarget(history)
          /\ (out.sql.r.err = NoErr /\ LastTarget(history) = deleteQuery) =>
                out.sql.r.sql = <<"DELETE", "FROM", qb.deleteBuilder.table>>

\* WithSelect, then Apply, then WithDelete: the delete statement is
\* rendered.
C30_Witness ==
    /\ out.sql.called
    /\ Len(history) = 4
    /\ history[2] = Selected(selectQuery)
    /\ history[3].op = "Apply" /\ history[3].err = NoErr
    /\ history[4] = Selected(deleteQuery)
    /\ out.sql.r = Rendered(<<"DELETE", "FROM", "players">>, <<>>)

=============================================================================
